---- MODULE Spec2Model ----
(***************************************************************************)
(* Gravitational identity model (src/core/identity_model.py): Experience,  *)
(* Belief and Identity as a state machine, with the emotion templates of   *)
(* src/core/emotion_templates.py and the pride mechanism of                *)
(* src/psychological_systems/emotions/pride.py.                            *)
(*                                                                         *)
(* Python floats are modelled as decimal fixed-point numbers: the integer  *)
(* x stands for the real x / Unit.  Every float multiplication of the      *)
(* source is one Mul, rounded to the nearest unit (sign-symmetric, as      *)
(* IEEE rounding is); sums, differences and comparisons are exact.         *)
(***************************************************************************)
EXTENDS Integers, Sequences, FiniteSets, TLC

VARIABLES
    beliefs,   \* Identity.beliefs: dict name -> Belief (DOMAIN = the keys present)
    mass,      \* Identity.mass
    loop,      \* the demonstration loop under way: its belief and the rounds left
    last,      \* the last call made: its arguments, locals, result and error
    recoveries, \* how many apply_elastic_recovery calls the scheduler has made
    emotions,  \* EmotionSystem.emotions: template name -> its intensity and duration
    mods,      \* the mapping the last process_experience call returned
    calls,     \* how many calls the client of the emotion system has made
    aspirations,         \* PrideCapableIdentity.aspirations, in the order of the dict
    pride_sensitivity,   \* PrideCapableIdentity.pride_sensitivity
    current_pride,       \* PrideCapableIdentity.current_pride: <<>> is None
    recent_pride_states, \* PrideCapableIdentity.recent_pride_states
    achieved,  \* how many achieve_action calls the client has made
    comfort_sensitivity,     \* ComfortCapableIdentity.comfort_sensitivity
    current_comfort,         \* ComfortCapableIdentity.current_comfort: <<>> is None
    recent_identity_changes, \* ComfortCapableIdentity.recent_identity_changes
    comfort_history,         \* ComfortCapableIdentity.comfort_history
    standards,         \* ShameCapableIdentity.standards, in the order of the dict
    shame_sensitivity, \* ShameCapableIdentity.shame_sensitivity
    current_shame,     \* ShameCapableIdentity.current_shame: <<>> is None
    response   \* the last agent_identity.respond call: its outputs, score and result

prideVars == <<aspirations, pride_sensitivity, current_pride, recent_pride_states, achieved>>

comfortVars ==
    <<comfort_sensitivity, current_comfort, recent_identity_changes, comfort_history>>

shameVars == <<standards, shame_sensitivity, current_shame>>

vars == <<beliefs, mass, loop, last, recoveries, emotions, mods, calls, prideVars,
          comfortVars, shameVars, response>>

---------------------------------------------------------------------------
\* Fixed-point arithmetic

Unit == 1000 * 1000

\* n thousandths: Milli(900) is 0.9
Milli(n) == n * 1000

Abs(x) == IF x < 0 THEN -x ELSE x

Min(a, b) == IF b < a THEN b ELSE a

Max(a, b) == IF b > a THEN b ELSE a

\* round(a * b / Unit) for a, b >= 0, computed in base-1000 limbs so that no
\* intermediate product leaves the 32-bit range
MulMag(a, b) ==
    LET a1 == a \div 1000
        a0 == a % 1000
        b1 == b \div 1000
        b0 == b % 1000
    IN  a1 * b1 + ((a1 * b0 + a0 * b1 + ((a0 * b0 + 500000) \div 1000)) \div 1000)

\* the float product a * b
Mul(a, b) ==
    IF (a < 0) = (b < 0) THEN MulMag(Abs(a), Abs(b)) ELSE -MulMag(Abs(a), Abs(b))

Clamp01_Unclamped(x) == x

\* max(0.0, min(1.0, x))
Clamp01(x) == Max(0, Min(Unit, x))

---------------------------------------------------------------------------
\* Experience

Experience(content, valence, intensity, source) ==
    [content |-> content, valence |-> valence, intensity |-> intensity, source |-> source]

WeightedValue_NoLossAversion(e, loss_aversion_factor) ==
    IF e.valence = "positive" THEN e.intensity ELSE Mul(-Unit, e.intensity)

\* Experience.weighted_value(loss_aversion_factor)
WeightedValue(e, loss_aversion_factor) ==
    IF e.valence = "positive"
    THEN e.intensity
    ELSE Mul(Mul(-Unit, e.intensity), loss_aversion_factor)

---------------------------------------------------------------------------
\* Belief

\* Belief.__init__(name, strength, experience_threshold)
NewBelief(name, strength, experience_threshold) ==
    [name |-> name,
     strength |-> Clamp01(strength),
     experiences |-> <<>>,
     experience_threshold |-> experience_threshold,
     baseline_strength |-> strength]

\* Belief.adaptability()
Adaptability(b) == Unit - b.strength

\* Belief._calculate_experience_weight()
CalculateExperienceWeight(b) ==
    LET current_experiences == Len(b.experiences)
    IN  IF current_experiences < 10 THEN Unit
        ELSE IF current_experiences < 100 THEN Milli(500)
        ELSE IF current_experiences < b.experience_threshold THEN Milli(200)
        ELSE Milli(100)

CalculateElasticResistance_None(b) == Unit

\* Belief._calculate_elastic_resistance()
CalculateElasticResistance(b) ==
    LET distance_from_baseline == Abs(b.strength - b.baseline_strength)
    IN  IF distance_from_baseline < Milli(100) THEN Unit
        ELSE IF distance_from_baseline < Milli(300) THEN Milli(700)
        ELSE Milli(300)

IsTraumatic_AtThreshold(e) == e.valence = "negative" /\ e.intensity >= Milli(900)

\* is_traumatic of Belief.update_from_experience
IsTraumatic(e) == e.valence = "negative" /\ e.intensity > Milli(900)

\* scaling_factor of Belief.update_from_experience
ScalingFactor(e) == IF IsTraumatic(e) THEN Milli(50) ELSE Milli(1)

\* self.experiences.append(experience)
Appended_First(b, e) == [b EXCEPT !.experiences = <<e>> \o @]

Appended(b, e) == [b EXCEPT !.experiences = Append(@, e)]

WeighedBelief_BeforeAppend(b, e) == b

\* the belief _calculate_experience_weight reads: the experience is already appended
WeighedBelief(b, e) == Appended(b, e)

\* the locals of one Belief.update_from_experience(e, loss_aversion_factor) call
UpdateLocals(b, e, loss_aversion_factor) ==
    LET b1 == Appended(b, e)
        experience_weight == CalculateExperienceWeight(WeighedBelief(b, e))
        scaling_factor == ScalingFactor(e)
        raw_change == Mul(WeightedValue(e, loss_aversion_factor), Adaptability(b1))
        change0 == Mul(Mul(raw_change, scaling_factor), experience_weight)
        elastic_resistance == CalculateElasticResistance(b1)
        change == Mul(change0, elastic_resistance)
    IN  [before |-> b.strength,
         experience_weight |-> experience_weight,
         scaling_factor |-> scaling_factor,
         raw_change |-> raw_change,
         elastic_resistance |-> elastic_resistance,
         change |-> change,
         strength |-> Clamp01(b1.strength + change)]

\* the belief after Belief.update_from_experience(e, loss_aversion_factor)
UpdateFromExperience(b, e, loss_aversion_factor) ==
    [Appended(b, e) EXCEPT !.strength = UpdateLocals(b, e, loss_aversion_factor).strength]

ApplyElasticRecovery_Tenfold(b, recovery_factor) ==
    IF Abs(b.strength - b.baseline_strength) > Milli(50)
    THEN LET direction == IF b.baseline_strength > b.strength THEN 1 ELSE -1
         IN  [b EXCEPT !.strength = Clamp01(b.strength + direction * 10 * recovery_factor)]
    ELSE b

ApplyElasticRecovery_Always(b, recovery_factor) ==
    LET direction == IF b.baseline_strength > b.strength THEN 1 ELSE -1
    IN  [b EXCEPT !.strength = Clamp01(b.strength + direction * recovery_factor)]

\* the belief after Belief.apply_elastic_recovery(recovery_factor)
ApplyElasticRecovery(b, recovery_factor) ==
    IF Abs(b.strength - b.baseline_strength) > Milli(50)
    THEN LET direction == IF b.baseline_strength > b.strength THEN 1 ELSE -1
             recovery == direction * recovery_factor
         IN  [b EXCEPT !.strength = Clamp01(b.strength + recovery)]
    ELSE b

---------------------------------------------------------------------------
\* Identity

\* sum(belief.strength for belief in self.beliefs.values())
RECURSIVE SumStrengths(_, _)
SumStrengths(bs, keys) ==
    IF keys = {} THEN 0
    ELSE LET k == CHOOSE x \in keys : TRUE
         IN  bs[k].strength + SumStrengths(bs, keys \ {k})

RECURSIVE SumBaselines(_, _)
SumBaselines(bs, keys) ==
    IF keys = {} THEN 0
    ELSE LET k == CHOOSE x \in keys : TRUE
         IN  bs[k].baseline_strength + SumBaselines(bs, keys \ {k})

RecalculateMass_Baselines(bs) == SumBaselines(bs, DOMAIN bs)

\* Identity.recalculate_mass()
RecalculateMass(bs) == SumStrengths(bs, DOMAIN bs)

\* self.beliefs[belief.name] = belief
Put(bs, b) ==
    [k \in DOMAIN bs \cup {b.name} |-> IF k = b.name THEN b ELSE bs[k]]

\* Identity.gravitational_resistance()
GravitationalResistance(m) == Mul(m, m)

\* Python's built-in exception hierarchy, as far as the classes involved: class -> base
ExceptionBase ==
    [c \in {"ValueError", "KeyError", "IndexError", "LookupError", "Exception"} |->
        CASE c = "ValueError" -> "Exception"
          [] c = "KeyError" -> "LookupError"
          [] c = "IndexError" -> "LookupError"
          [] c = "LookupError" -> "Exception"
          [] c = "Exception" -> "BaseException"]

\* issubclass(c, k): whether "except k" catches an exception of class c
RECURSIVE IsSubclass(_, _)
IsSubclass(c, k) ==
    \/ c = k
    \/ c \in DOMAIN ExceptionBase /\ IsSubclass(ExceptionBase[c], k)

NotFoundError_KeyError == "KeyError"

\* the exception Identity.integrate_experience raises for an absent belief
NotFoundError == "ValueError"

---------------------------------------------------------------------------
\* The record of the last call

NoExperience == Experience("", "positive", 0, "")

NoLocals ==
    [before |-> 0, experience_weight |-> 0, scaling_factor |-> 0, raw_change |-> 0,
     elastic_resistance |-> 0, change |-> 0, strength |-> 0]

\* op: the method called; target: the belief name it was given; exp, arg: the
\* experience and the factor passed; locals: update_from_experience's locals;
\* result: the value returned; error: the exception raised ("none": returned)
Call(op, target, exp, arg, locals, result, error) ==
    [op |-> op, target |-> target, exp |-> exp, arg |-> arg,
     locals |-> locals, result |-> result, error |-> error]

---------------------------------------------------------------------------
\* Emotion templates (src/core/emotion_templates.py)

\* the templates of an EmotionSystem, in the order of its dict
EmotionOrder == <<"fear", "shame", "comfort", "pride", "loneliness">>

EmotionNames == {EmotionOrder[i] : i \in DOMAIN EmotionOrder}

\* EmotionTemplate.__init__: the state of a template
NewTemplate == [intensity |-> 0, active_duration |-> 0]

\* EmotionSystem.__init__
NewEmotionSystem == [n \in EmotionNames |-> NewTemplate]

Activate_Overwrite(t, intensity, duration) ==
    [intensity |-> intensity, active_duration |-> duration]

\* EmotionTemplate.activate(intensity, duration)
Activate(t, intensity, duration) ==
    [intensity |-> Max(t.intensity, intensity),
     active_duration |-> Max(t.active_duration, duration)]

Decay_AfterExpiry(t, decay_rate) ==
    IF t.active_duration > 0
    THEN [t EXCEPT !.active_duration = @ - 1]
    ELSE [t EXCEPT !.intensity = Mul(@, Unit - decay_rate)]

\* EmotionTemplate.decay(decay_rate)
Decay(t, decay_rate) ==
    IF t.active_duration > 0
    THEN LET d == t.active_duration - 1
         IN  [intensity |-> IF d <= 0 THEN Mul(t.intensity, Unit - decay_rate)
                            ELSE t.intensity,
              active_duration |-> d]
    ELSE [t EXCEPT !.intensity = Mul(@, Unit - decay_rate)]

IsActive_Nonzero(t) == t.intensity > 0

\* EmotionTemplate.is_active()
IsActive(t) == t.intensity > Milli(50)

\* check_trigger of each template class
FearCheckTrigger(e) ==
    IF e.valence = "negative" /\ e.intensity > Milli(700)
    THEN Min((e.intensity - Milli(700)) * 2, Unit) ELSE 0

ShameCheckTrigger(e) ==
    IF e.valence = "negative" /\ e.intensity > Milli(600)
    THEN Min(Mul(e.intensity - Milli(600), Milli(1500)), Unit) ELSE 0

ComfortCheckTrigger(e) ==
    IF e.valence = "positive" THEN Mul(e.intensity, Milli(600)) ELSE 0

PrideCheckTrigger(e) ==
    IF e.valence = "positive" THEN Min(Mul(e.intensity, Milli(1100)), Unit) ELSE 0

LonelinessCheckTrigger(e) ==
    IF e.valence = "negative" THEN Mul(e.intensity, Milli(700)) ELSE 0

CheckTrigger(name, e) ==
    CASE name = "fear" -> FearCheckTrigger(e)
      [] name = "shame" -> ShameCheckTrigger(e)
      [] name = "comfort" -> ComfortCheckTrigger(e)
      [] name = "pride" -> PrideCheckTrigger(e)
      [] name = "loneliness" -> LonelinessCheckTrigger(e)

\* modifications = {}
NoMods == [k \in {} |-> 0]

Update_Sum(modifications, more) ==
    [k \in DOMAIN modifications \cup DOMAIN more |->
        (IF k \in DOMAIN modifications THEN modifications[k] ELSE 0)
        + (IF k \in DOMAIN more THEN more[k] ELSE 0)]

\* dict.update: the keys of more overwrite
Update(modifications, more) ==
    [k \in DOMAIN modifications \cup DOMAIN more |->
        IF k \in DOMAIN more THEN more[k] ELSE modifications[k]]

\* modifications[key] = value, made only under the condition
Entry(condition, key, value) == IF condition THEN key :> value ELSE NoMods

\* influence_belief_update of each template class
FearInfluence(t, e) ==
    Update(Entry(IsActive(t) /\ e.valence = "negative",
                 "intensity_multiplier", Unit + Mul(t.intensity, Milli(500))),
           Entry(IsActive(t), "resistance_multiplier", Unit + Mul(t.intensity, Milli(300))))

ShameInfluence(t, e) ==
    Entry(IsActive(t), "intensity_multiplier",
          IF e.valence = "negative" THEN Unit + Mul(t.intensity, Milli(700))
          ELSE Unit - Mul(t.intensity, Milli(400)))

ComfortInfluence(t, e) ==
    Update(Entry(IsActive(t), "emotional_dampening", Mul(t.intensity, Milli(300))),
           Entry(IsActive(t) /\ e.valence = "positive",
                 "intensity_multiplier", Unit + Mul(t.intensity, Milli(200))))

PrideInfluence(t, e) ==
    Entry(IsActive(t) /\ e.valence \in {"positive", "negative"}, "intensity_multiplier",
          IF e.valence = "positive" THEN Unit + Mul(t.intensity, Milli(600))
          ELSE Unit - Mul(t.intensity, Milli(200)))

LonelinessInfluence(t, e) ==
    Update(Entry(IsActive(t), "social_sensitivity", Unit + Mul(t.intensity, Milli(500))),
           Entry(IsActive(t), "intensity_multiplier", Unit + Mul(t.intensity, Milli(300))))

InfluenceBeliefUpdate(name, t, e) ==
    CASE name = "fear" -> FearInfluence(t, e)
      [] name = "shame" -> ShameInfluence(t, e)
      [] name = "comfort" -> ComfortInfluence(t, e)
      [] name = "pride" -> PrideInfluence(t, e)
      [] name = "loneliness" -> LonelinessInfluence(t, e)

\* first loop of process_experience: every triggered template is activated
Activated(ems, e) ==
    [n \in EmotionNames |->
        IF CheckTrigger(n, e) > 0 THEN Activate(ems[n], CheckTrigger(n, e), 3) ELSE ems[n]]

\* second loop, over the first i templates: the active ones update
\* all_modifications (so far: the mapping as the templates before the i-th left it)
RECURSIVE Collected(_, _, _)
Collected(ems, e, i) ==
    IF i = 0 THEN NoMods
    ELSE LET n == EmotionOrder[i]
         IN  CHOOSE all_modifications \in
                 { IF IsActive(ems[n])
                   THEN Update(so_far, InfluenceBeliefUpdate(n, ems[n], e))
                   ELSE so_far : so_far \in {Collected(ems, e, i - 1)} } : TRUE

Decayed_NotYet(ems) == ems

\* third loop: every template decays at the default rate
Decayed(ems) == [n \in EmotionNames |-> Decay(ems[n], Milli(300))]

ProcessExperience_CollectFirst(ems, e) ==
    [emotions |-> Decayed(Activated(ems, e)),
     returned |-> Collected(ems, e, Len(EmotionOrder))]

\* EmotionSystem.process_experience(experience, belief): the templates afterwards
\* and the mapping returned (activated: the templates as the first loop left them)
ProcessExperience(ems, e) ==
    CHOOSE r \in { [emotions |-> Decayed(activated),
                    returned |-> Collected(activated, e, Len(EmotionOrder))] :
                   activated \in {Activated(ems, e)} } : TRUE

---------------------------------------------------------------------------
\* Pride (src/psychological_systems/emotions/pride.py)

\* round(a / b) for a >= 0 and 0 < b < 2.1, by long division in base 1000
DivMag(a, b) ==
    LET r0 == a % b
        q1 == (r0 * 1000) \div b
        r1 == (r0 * 1000) % b
    IN  (a \div b) * Unit + q1 * 1000 + ((r1 * 1000 + b \div 2) \div b)

\* the float quotient a / b
Div(a, b) ==
    IF (a < 0) = (b < 0) THEN DivMag(Abs(a), Abs(b)) ELSE -DivMag(Abs(a), Abs(b))

\* Newton's iteration for the square root of x from an estimate r above it
RECURSIVE Newton(_, _, _)
Newton(x, r, rounds) ==
    IF rounds = 0 THEN r
    ELSE CHOOSE root \in { IF next >= r THEN r ELSE Newton(x, next, rounds - 1) :
                           next \in {(r + Div(x, r)) \div 2} } : TRUE

\* x ** 0.5
Sqrt(x) == IF x <= 0 THEN 0 ELSE Newton(x, (x + Unit) \div 2 + 1, 40)

\* sum(a * b for a, b in zip(v, w)), v and w of one length
RECURSIVE DotTo(_, _, _)
DotTo(v, w, i) == IF i = 0 THEN 0 ELSE DotTo(v, w, i - 1) + Mul(v[i], w[i])

Dot(v, w) == DotTo(v, w, Len(v))

\* Aspiration.__post_init__ and PrideAction._normalize_vector: the vector at unit length
Normalized(vector) ==
    IF vector = <<>> THEN vector
    ELSE LET norm == Sqrt(Dot(vector, vector))
         IN  IF norm > 0 THEN [i \in DOMAIN vector |-> Div(vector[i], norm)] ELSE vector

\* Aspiration(name, description, domain_vector, strength, integration_style)
Aspiration(name, domain_vector, strength, integration_style) ==
    [name |-> name, domain_vector |-> Normalized(domain_vector),
     strength |-> strength, integration_style |-> integration_style]

\* PrideAction.RECOGNITION_MULTIPLIERS
RecognitionMultipliers ==
    [self |-> Unit, peer |-> 3 * Milli(500), public |-> 2 * Unit, authority |-> 5 * Milli(500)]

\* PrideAction(content, domain_vector, recognition_type)
PrideAction(content, domain_vector, recognition_type) ==
    [content |-> content, domain_vector |-> Normalized(domain_vector),
     recognition_type |-> recognition_type,
     recognition_multiplier |-> RecognitionMultipliers[recognition_type]]

\* PrideCalculator.calculate_alignment
CalculateAlignment(action_vector, aspiration_vector) ==
    IF Len(action_vector) # Len(aspiration_vector) THEN 0
    ELSE IF action_vector = <<>> THEN 0
    ELSE LET dot_product == Dot(action_vector, aspiration_vector)
             norm_a == Sqrt(Dot(action_vector, action_vector))
             norm_b == Sqrt(Dot(aspiration_vector, aspiration_vector))
         IN  IF norm_a = 0 \/ norm_b = 0 THEN 0
             ELSE Max(0, Div(dot_product, Mul(norm_a, norm_b)))

CalculatePrideIntensity_NoSensitivity(aspiration_strength, alignment, recognition_multiplier, sensitivity) ==
    Max(0, Min(Unit, Mul(Mul(aspiration_strength, alignment), recognition_multiplier)))

\* PrideCalculator.calculate_pride_intensity
CalculatePrideIntensity(aspiration_strength, alignment, recognition_multiplier, sensitivity) ==
    Max(0, Min(Unit, Mul(Mul(Mul(aspiration_strength, alignment), recognition_multiplier),
                         sensitivity)))

ShouldTriggerShameFeedback_AnyStyle(aspiration, alignment) ==
    alignment < Milli(300) /\ aspiration.strength > Milli(500)

ShouldTriggerShameFeedback_AnyStrength(aspiration, alignment) ==
    aspiration.integration_style = "mandatory" /\ alignment < Milli(300)

\* PrideCalculator.should_trigger_shame_feedback, threshold 0.3
ShouldTriggerShameFeedback(aspiration, alignment) ==
    /\ aspiration.integration_style = "mandatory"
    /\ alignment < Milli(300)
    /\ aspiration.strength > Milli(500)

\* PrideEmotion(intensity, source_achievement, aspiration_name)
PrideEmotion(intensity, source_achievement, aspiration_name) ==
    [intensity |-> intensity, source_achievement |-> source_achievement,
     aspiration_name |-> aspiration_name,
     duration |-> Max(1, (intensity * 4) \div Unit),
     active_duration |-> Max(1, (intensity * 4) \div Unit)]

PrideDecay_OnExpiry(pride) ==
    IF pride.active_duration > 0
    THEN LET d == pride.active_duration - 1
         IN  [pride EXCEPT !.active_duration = d,
                           !.intensity = IF d <= 0 THEN Mul(@, Unit - Milli(150)) ELSE @]
    ELSE [pride EXCEPT !.intensity = Mul(@, Unit - Milli(150))]

\* PrideEmotion.decay, decay_rate 0.15
PrideDecay(pride) ==
    IF pride.active_duration > 0
    THEN [pride EXCEPT !.active_duration = @ - 1]
    ELSE [pride EXCEPT !.intensity = Mul(@, Unit - Milli(150))]

\* PrideEmotion.is_active
PrideIsActive(pride) == pride.intensity > Milli(50)

\* name.lower().split() of the one-word lower-case names of the model
Words(name) == {name}

\* the belief shares a word with the aspiration
Related(belief_name, aspiration_name) == Words(aspiration_name) \cap Words(belief_name) # {}

\* PrideCapableIdentity._strengthen_related_beliefs
StrengthenRelatedBeliefs(bs, aspiration_name, boost) ==
    [k \in DOMAIN bs |->
        IF Related(k, aspiration_name)
        THEN [bs[k] EXCEPT !.strength = Min(Unit, @ + Mul(boost, Milli(300)))]
        ELSE bs[k]]

\* PrideCapableIdentity._weaken_related_beliefs
WeakenRelatedBeliefs(bs, aspiration_name, reduction) ==
    [k \in DOMAIN bs |->
        IF Related(k, aspiration_name)
        THEN [bs[k] EXCEPT !.strength = Max(0, @ - reduction)]
        ELSE bs[k]]

\* the position of the aspiration of that name in the dict, 0 when it has none
IndexOf(asps, name) ==
    IF \E i \in DOMAIN asps : asps[i].name = name
    THEN CHOOSE i \in DOMAIN asps : asps[i].name = name
    ELSE 0

\* the locals of achieve_action before its loop, with the state the loop mutates
AchieveLocals(asps, bs, m) ==
    [aspirations |-> asps, beliefs |-> bs, mass |-> m,
     alignment_scores |-> NoMods, triggered_effects |-> <<>>,
     max_pride_intensity |-> 0, best_aspiration |-> ""]

\* PrideCapableIdentity._apply_mandatory_aspiration_failure on the i-th aspiration
ApplyMandatoryAspirationFailure(st, i, alignment) ==
    LET failure_impact == Mul(Milli(300) - alignment, Milli(200))
        weakened == WeakenRelatedBeliefs(st.beliefs, st.aspirations[i].name,
                                         Mul(failure_impact, Milli(500)))
    IN  [st EXCEPT !.aspirations[i].strength = Max(0, @ - failure_impact),
                   !.beliefs = weakened,
                   !.mass = RecalculateMass(weakened)]

\* one round of the loop of achieve_action, on the i-th aspiration
AchieveRound(st, i, action, sensitivity) ==
    LET aspiration == st.aspirations[i]
        Judged(alignment) ==
            LET scored == [st EXCEPT !.alignment_scores =
                                         Update(@, aspiration.name :> alignment)]
            IN  IF ShouldTriggerShameFeedback(aspiration, alignment)
                THEN ApplyMandatoryAspirationFailure(
                         [scored EXCEPT !.triggered_effects =
                                            Append(@, <<"Shame feedback", aspiration.name>>)],
                         i, alignment)
                ELSE scored
        Compared(alignment, judged) ==
            LET pride_intensity ==
                    CalculatePrideIntensity(judged.aspirations[i].strength, alignment,
                                            action.recognition_multiplier, sensitivity)
            IN  IF alignment > Milli(400) /\ pride_intensity > judged.max_pride_intensity
                THEN [judged EXCEPT !.max_pride_intensity = pride_intensity,
                                    !.best_aspiration = aspiration.name]
                ELSE judged
    IN  CHOOSE after \in
            { Compared(round[1], round[2]) :
                  round \in { <<alignment, Judged(alignment)>> :
                                  alignment \in {CalculateAlignment(action.domain_vector,
                                                                    aspiration.domain_vector)} } } :
            TRUE

\* the loop of achieve_action over the first n aspirations
RECURSIVE AchieveLoop(_, _, _, _)
AchieveLoop(st, n, action, sensitivity) ==
    IF n = 0 THEN st
    ELSE CHOOSE after \in { AchieveRound(before, n, action, sensitivity) :
                            before \in {AchieveLoop(st, n - 1, action, sensitivity)} } : TRUE

\* PrideCapableIdentity._apply_pride_effects
ApplyPrideEffects(st, pride) ==
    LET i == IndexOf(st.aspirations, pride.aspiration_name)
        base == Mul(pride.intensity, Milli(150))
        belief_boost ==
            IF i > 0 /\ st.aspirations[i].integration_style = "mandatory"
            THEN Mul(base, 3 * Milli(500)) ELSE base
        strengthened == StrengthenRelatedBeliefs(st.beliefs, pride.aspiration_name,
                                                 belief_boost)
    IN  [st EXCEPT !.aspirations =
                       IF i > 0 THEN [@ EXCEPT ![i].strength = Min(Unit, @ + belief_boost)]
                       ELSE @,
                   !.beliefs = strengthened,
                   !.mass = RecalculateMass(strengthened),
                   !.triggered_effects = Append(@, <<"Pride triggered", pride.aspiration_name>>)]

\* PrideCapableIdentity._record_pride_state
RecordPrideState(states, pride, action) ==
    LET appended == Append(states, [intensity |-> pride.intensity,
                                    aspiration |-> pride.aspiration_name,
                                    action |-> action.content,
                                    recognition_type |-> action.recognition_type,
                                    timestamp |-> Len(states)])
    IN  IF Len(appended) > 10 THEN Tail(appended) ELSE appended

\* self.aspirations[aspiration.name] = aspiration
PutAspiration(asps, aspiration) ==
    IF IndexOf(asps, aspiration.name) > 0
    THEN [asps EXCEPT ![IndexOf(asps, aspiration.name)] = aspiration]
    ELSE Append(asps, aspiration)

---------------------------------------------------------------------------
\* Comfort (src/psychological_systems/emotions/comfort.py)

\* ComfortState(...).alignment_threshold and certainty_threshold of the identity
ComfortState == [alignment_threshold |-> Milli(600), certainty_threshold |-> Milli(700)]

\* dot / (norm_a * norm_b) of two vectors of one length with norms above 0
CosineSimilarity(v, w) ==
    CHOOSE similarity \in
        { Div(Dot(v, w), Mul(norms[1], norms[2])) :
              norms \in {<<Sqrt(Dot(v, v)), Sqrt(Dot(w, w))>>} } : TRUE

\* the belief vector enters the average: same length, neither norm 0
Comparable(v, w) == Len(v) = Len(w) /\ Sqrt(Dot(v, v)) # 0 /\ Sqrt(Dot(w, w)) # 0

\* the sum of the alignments with the vectors at the keys
RECURSIVE SumAlignments(_, _, _)
SumAlignments(input_vector, vectors, keys) ==
    IF keys = {} THEN 0
    ELSE LET k == CHOOSE x \in keys : TRUE
         IN  Max(0, Div(CosineSimilarity(input_vector, vectors[k]) + Unit, 2 * Unit))
                 + SumAlignments(input_vector, vectors, keys \ {k})

\* ComfortCalculator.calculate_semantic_alignment; belief_vectors by belief name
CalculateSemanticAlignment(input_vector, belief_vectors) ==
    IF input_vector = <<>> \/ DOMAIN belief_vectors = {} THEN Milli(500)
    ELSE LET alignments == {k \in DOMAIN belief_vectors :
                                Comparable(input_vector, belief_vectors[k])}
         IN  IF alignments = {} THEN Milli(500)
             ELSE Div(SumAlignments(input_vector, belief_vectors, alignments),
                      Cardinality(alignments) * Unit)

\* ComfortCalculator.calculate_certainty_level
CalculateCertaintyLevel(input_confidence, environmental_predictability) ==
    Clamp01(Mul(input_confidence, Milli(600)) + Mul(environmental_predictability, Milli(400)))

\* ComfortCalculator.calculate_identity_coherence
CalculateIdentityCoherence(identity_mass, recent_changes) ==
    LET base_coherence == Min(Unit, Div(identity_mass, 2 * Unit))
        change_penalty == Min(Unit, Mul(recent_changes, 2 * Unit))
    IN  Clamp01(Mul(base_coherence, Unit - change_penalty))

\* ComfortCalculator.calculate_comfort_intensity
CalculateComfortIntensity(alignment, certainty, identity_coherence, sensitivity) ==
    Clamp01(Mul(Mul(Mul(alignment, certainty), identity_coherence), sensitivity))

\* ComfortCalculator.detect_comfort_interruption, interruption_threshold 0.3
DetectComfortInterruption(dissonance_level, uncertainty_spike, aspiration_pressure) ==
    LET max_disruption == Max(dissonance_level, Max(uncertainty_spike, aspiration_pressure))
    IN  IF max_disruption > Milli(300)
        THEN [should_interrupt |-> TRUE,
              reason |-> IF dissonance_level = max_disruption THEN "semantic_dissonance"
                         ELSE IF uncertainty_spike = max_disruption THEN "uncertainty_spike"
                         ELSE "aspiration_pressure"]
        ELSE [should_interrupt |-> FALSE, reason |-> ""]

\* ComfortInput(content, semantic_vector, confidence, predictability)
ComfortInput(content, semantic_vector, confidence, predictability) ==
    [content |-> content, semantic_vector |-> Normalized(semantic_vector),
     confidence |-> Clamp01(confidence), predictability |-> Clamp01(predictability)]

\* ComfortInput.get_disruption_factors
GetDisruptionFactors(comfort_input) ==
    [low_confidence |-> Unit - comfort_input.confidence,
     unpredictability |-> Unit - comfort_input.predictability,
     semantic_novelty |-> Milli(500)]

\* ComfortEmotion(intensity, source_alignment, coherence_level)
ComfortEmotion(intensity, source_alignment, coherence_level) ==
    [intensity |-> intensity, source_alignment |-> source_alignment,
     coherence_level |-> coherence_level,
     duration |-> Max(1, (intensity * 10) \div Unit),
     active_duration |-> Max(1, (intensity * 10) \div Unit),
     time_stable |-> 0]

\* ComfortEmotion.build_stability
BuildStability(c) ==
    IF c.active_duration > 0
    THEN [c EXCEPT !.time_stable = @ + 1,
                   !.intensity = Min(Unit, @ + Min(Milli(100), (c.time_stable + 1) * Milli(10)))]
    ELSE c

\* ComfortEmotion.decay, decay_rate 0.05
ComfortDecay(c) ==
    IF c.active_duration > 0
    THEN BuildStability([c EXCEPT !.active_duration = @ - 1])
    ELSE [c EXCEPT !.intensity = Mul(@, Unit - Milli(50))]

Interrupt_KeepStability(c, interruption_strength) ==
    [c EXCEPT !.intensity = Max(0, @ - Mul(interruption_strength, Milli(800))),
              !.active_duration = Max(0, @ - 2)]

\* ComfortEmotion.interrupt(interruption_strength, reason)
Interrupt(c, interruption_strength) ==
    [c EXCEPT !.intensity = Max(0, @ - Mul(interruption_strength, Milli(800))),
              !.time_stable = 0,
              !.active_duration = Max(0, @ - 2)]

\* ComfortEmotion.is_active
ComfortIsActive(c) == c.intensity > Milli(100)

\* the indicator words of the four semantic dimensions
Indicators ==
    << {"stable", "reliable", "consistent", "predictable"},
       {"good", "positive", "helpful", "beneficial"},
       {"certain", "sure", "confident", "clear"},
       {"social", "people", "relationship", "connect"} >>

\* ComfortCapableIdentity._encode_belief_semantics, on the one-word lower-case
\* names of the model (the name holds a word when it is that word)
EncodeBeliefSemantics(belief) ==
    Normalized([i \in 1..4 |-> IF belief.name \in Indicators[i] THEN Unit ELSE 0])

\* ComfortCapableIdentity._apply_comfort_effects: the beliefs and the recent
\* changes after it
ApplyComfortEffects(bs, changes, comfort) ==
    [beliefs |-> [k \in DOMAIN bs |->
                     [bs[k] EXCEPT !.strength = Min(Unit, @ + Mul(comfort.intensity, Milli(50)))]],
     recent_identity_changes |-> Mul(changes, Unit - Mul(comfort.intensity, Milli(600)))]

\* ComfortCapableIdentity._record_comfort_state; comfort is <<>> for None
RecordComfortState(history, comfort, comfort_input, metrics) ==
    LET appended == Append(history,
                           [input_content |-> comfort_input.content,
                            comfort_intensity |-> IF comfort = <<>> THEN 0
                                                  ELSE comfort[1].intensity,
                            alignment |-> metrics.alignment,
                            certainty |-> metrics.certainty,
                            coherence |-> metrics.identity_coherence,
                            timestamp |-> Len(history)])
    IN  IF Len(appended) > 20 THEN Tail(appended) ELSE appended

---------------------------------------------------------------------------
\* Shame (src/psychological_systems/emotions/shame.py)
\* A text is the sequence of its words, and "belief:" is a word of its own.

\* the keywords of InternalizedStandard._encode_semantics and their vectors
StandardKeywords ==
    [calm |-> <<Unit, 0, 0, 0>>, helpful |-> <<0, Unit, 0, 0>>,
     honest |-> <<0, 0, Unit, 0>>, respectful |-> <<0, 0, 0, Unit>>]

\* the keywords of ShameAction._encode_action and their vectors
ActionKeywords ==
    [angry |-> <<-Unit, 0, 0, 0>>, rude |-> <<0, -Unit, 0, -Unit>>,
     lie |-> <<0, 0, -Unit, 0>>, mean |-> <<0, -Unit, 0, -Unit>>,
     stupid |-> <<0, -Unit, 0, -Unit>>, calm |-> <<Unit, 0, 0, 0>>,
     helpful |-> <<0, Unit, 0, 0>>, honest |-> <<0, 0, Unit, 0>>,
     respectful |-> <<0, 0, 0, Unit>>]

\* the sum of the vectors of the keywords that are in the set
RECURSIVE SumKeywords(_, _)
SumKeywords(keywords, present) ==
    IF present = {} THEN <<0, 0, 0, 0>>
    ELSE LET k == CHOOSE x \in present : TRUE
             rest == SumKeywords(keywords, present \ {k})
         IN  [i \in 1..4 |-> rest[i] + keywords[k][i]]

\* the vector of a text: for keyword in keywords, if keyword in text, add its values
Encode(keywords, text) ==
    SumKeywords(keywords, {k \in DOMAIN keywords : \E i \in DOMAIN text : text[i] = k})

\* InternalizedStandard(name, description, strength), semantic_vector None
InternalizedStandard(name, description, strength) ==
    [name |-> name, strength |-> strength,
     semantic_vector |-> Encode(StandardKeywords, name \o description)]

\* ShameCalculator.calculate_semantic_dissonance
CalculateSemanticDissonance(action_vector, standard_vector) ==
    IF Len(action_vector) # Len(standard_vector) THEN Milli(500)
    ELSE IF ~Comparable(action_vector, standard_vector) THEN Milli(500)
    ELSE Clamp01(Div(Unit - CosineSimilarity(action_vector, standard_vector), 2 * Unit))

\* ShameCalculator.calculate_shame_intensity
CalculateShameIntensity(belief_strength, dissonance, exposure_level, sensitivity) ==
    CHOOSE shame_intensity \in
        { Clamp01(Mul(base_shame, sensitivity)) :
              base_shame \in {Mul(Mul(belief_strength, dissonance), exposure_level)} } : TRUE

\* ShameAction(content, exposure_level)
ShameAction(content, exposure_level) ==
    [content |-> content, exposure_level |-> exposure_level,
     semantic_vector |-> Encode(ActionKeywords, content)]

\* ShameEmotion(intensity, source_violation)
ShameEmotion(intensity, source_violation) ==
    [intensity |-> intensity, source_violation |-> source_violation,
     duration |-> Max(1, (intensity * 5) \div Unit),
     active_duration |-> Max(1, (intensity * 5) \div Unit)]

\* ShameEmotion.get_belief_impact
GetBeliefImpact(shame) == -Mul(shame.intensity, Milli(100))

\* ShameEmotion.get_avoidance_drive
GetAvoidanceDrive(shame) == Mul(shame.intensity, Milli(800))

\* f"belief:{belief_name}"
BeliefViolation(belief_name) == <<"belief:">> \o belief_name

\* violation.startswith("belief:")
StartsWithBelief(violation) == Len(violation) > 0 /\ violation[1] = "belief:"

\* violation.replace("belief:", "")
ReplaceBelief(violation) == SelectSeq(violation, LAMBDA word : word # "belief:")

\* the vector perform_action gives every belief
BeliefVector == <<Milli(500), Milli(500), Milli(500), Milli(500)>>

\* the locals of perform_action before its loops
PerformLocals ==
    [dissonance_scores |-> <<>>, max_shame_intensity |-> 0, worst_violation |-> <<>>]

\* one round of either loop of perform_action: a strength under a violation name
Considered(st, action, sensitivity, strength, dissonance, violation) ==
    IF dissonance > Milli(300)
    THEN CHOOSE after \in
             { IF shame_intensity > st.max_shame_intensity
               THEN [st EXCEPT !.max_shame_intensity = shame_intensity,
                               !.worst_violation = violation]
               ELSE st :
               shame_intensity \in {CalculateShameIntensity(strength, dissonance,
                                                            action.exposure_level,
                                                            sensitivity)} } : TRUE
    ELSE st

\* the first loop of perform_action, over the first n standards
RECURSIVE StandardsLoop(_, _, _, _)
StandardsLoop(stds, n, action, sensitivity) ==
    IF n = 0 THEN PerformLocals
    ELSE CHOOSE after \in
             { Considered([round[1] EXCEPT !.dissonance_scores =
                                               Append(@, <<stds[n].name, round[2]>>)],
                          action, sensitivity, stds[n].strength, round[2], stds[n].name) :
               round \in { <<before,
                             CalculateSemanticDissonance(action.semantic_vector,
                                                         stds[n].semantic_vector)>> :
                           before \in {StandardsLoop(stds, n - 1, action, sensitivity)} } } :
             TRUE

\* the second loop of perform_action, over the first n beliefs of the order
RECURSIVE BeliefsLoop(_, _, _, _, _, _)
BeliefsLoop(st, bs, order, n, action, sensitivity) ==
    IF n = 0 THEN st
    ELSE CHOOSE after \in
             { IF order[n] \in DOMAIN bs
               THEN Considered(before, action, sensitivity, bs[order[n]].strength,
                               CalculateSemanticDissonance(action.semantic_vector,
                                                           BeliefVector),
                               BeliefViolation(order[n]))
               ELSE before :
               before \in {BeliefsLoop(st, bs, order, n - 1, action, sensitivity)} } : TRUE

\* ShameCapableIdentity._apply_shame_effects: the standards and beliefs after it
ApplyShameEffects(stds, bs, shame, violation) ==
    LET belief_impact == GetBeliefImpact(shame)
    IN  IF StartsWithBelief(violation)
        THEN LET belief_name == ReplaceBelief(violation)
             IN  [standards |-> stds,
                  beliefs |-> IF belief_name \in DOMAIN bs
                              THEN [bs EXCEPT ![belief_name].strength =
                                                  Max(0, @ + belief_impact)]
                              ELSE bs]
        ELSE [standards |-> IF IndexOf(stds, violation) > 0
                            THEN [stds EXCEPT ![IndexOf(stds, violation)].strength =
                                                  Max(0, @ + belief_impact)]
                            ELSE stds,
              beliefs |-> bs]

\* ShameEmotion.decay, decay_rate 0.2
ShameDecay(shame) ==
    IF shame.active_duration > 0
    THEN [shame EXCEPT !.active_duration = @ - 1]
    ELSE [shame EXCEPT !.intensity = Mul(@, Unit - Milli(200))]

\* ShameEmotion.is_active
ShameIsActive(shame) == shame.intensity > Milli(50)

---------------------------------------------------------------------------
\* Agent

IdentityTone_Uncertainty(output, gravity_score) ==
    IF gravity_score < Milli(100) THEN <<"", output.text>>
    ELSE IF gravity_score < Milli(500)
    THEN <<"I think this is likely, but not fully certain:\n", output.text>>
    ELSE <<"This may be unreliable - here's my best attempt:\n", output.text>>

\* verbalizer.identity_tone(output, gravity_score): the prefix and what follows it
IdentityTone(output, gravity_score) ==
    IF gravity_score > Milli(500)
    THEN <<"This aligns with my core understanding:\n", output.text>>
    ELSE IF gravity_score > Milli(100)
    THEN <<"I'm exploring this perspective:\n", output.text>>
    ELSE <<"I'm still forming my understanding of this:\n", output.text>>

\* the Experience respond makes of outputs[i + 1], enumerate's i counting from 0
ResponseExperience(i, output) ==
    Experience(<<output.text, Min(output.length, 50), "...">>,
               IF output.length > 10 THEN "positive" ELSE "negative",
               Min((output.length * Unit) \div 100, Unit),
               <<"response_", i>>)

\* Identity.integrate_experience on an identity that is a local of respond
Integrated(identity, e, target_belief_name) ==
    LET bs == [identity.beliefs EXCEPT ![target_belief_name] =
                   UpdateFromExperience(@, e, 2 * Unit)]
    IN  [beliefs |-> bs, mass |-> RecalculateMass(bs)]

\* temp_identity after the first n rounds of respond's loop over outputs
RECURSIVE RespondLoop(_, _, _)
RespondLoop(identity, outputs, n) ==
    IF n = 0 THEN identity
    ELSE LET before == RespondLoop(identity, outputs, n - 1)
         IN  CHOOSE after \in {Integrated(before, ResponseExperience(n - 1, outputs[n]),
                                          "response_consistency")} : TRUE

\* temp_identity as respond sets it up: one belief of strength 0.5
TempIdentity ==
    LET bs == Put([k \in {} |-> NewBelief("", 0, 0)],
                  NewBelief("response_consistency", Milli(500), 1000))
    IN  [beliefs |-> bs, mass |-> RecalculateMass(bs)]

---------------------------------------------------------------------------
\* Inputs

\* belief names of the identity
Names == {"leader", "test"}

\* constructor strength arguments of the identity's beliefs
Strengths == {Milli(500), Milli(600)}

\* experience_threshold arguments (1000 is the default)
Thresholds == {1000}

\* experiences integrated into the identity
Experiences ==
    { Experience("x", "positive", Milli(800), "s"),
      Experience("x", "negative", Milli(950), "s") }

\* loss_aversion_factor arguments (2.0 is the default)
LossAversionFactors == {2 * Unit}

\* recovery_factor arguments (0.01 is the default)
RecoveryFactors == {Milli(10)}

\* the single belief of the belief specification
BeliefNames == {"leader"}

\* its constructor arguments <<strength, experience_threshold>>: strengths in and out
\* of [0,1] (a negative one leaves strength 0 at that distance above the baseline),
\* thresholds at the default and below the fixed tiers
BeliefArguments ==
    { <<Milli(600), 1000>>, <<Milli(1500), 1000>>, <<-99500, 1000>>,
      <<-299500, 100>>, <<Milli(500), 50>> }

\* what is fed to it, <<valence, intensity, loss_aversion_factor>>: intensities in and
\* out of [0,1] and on both sides of the trauma threshold, factors that drive the
\* sum past either end of [0,1]
BeliefFeeds ==
    { <<"positive", Milli(800), 2 * Unit>>, <<"positive", 5 * Unit, 2 * Unit>>,
      <<"negative", Milli(800), 2 * Unit>>, <<"negative", Milli(900), 2 * Unit>>,
      <<"negative", 900100, 2 * Unit>>,
      <<"negative", 5 * Unit, 20 * Unit>>, <<"negative", 5 * Unit, -20 * Unit>> }

BeliefRecoveryFactors == {Milli(10), Milli(900), -Milli(200)}

\* n_samples of respond's run_model call
NSamples == 3

\* len(output) of a model output: none, short of, at and past the 10 that make
\* an experience positive, at the 50 content is cut at, at and past the 100 that
\* make it of full intensity
OutputLengths == {0, 5, 10, 11, 50, 100, 250}

\* what run_model returns: NSamples outputs, each a text of some length
RunModel ==
    { [i \in 1..NSamples |-> [text |-> <<"sample", i>>, length |-> lengths[i]]] :
          lengths \in [1..NSamples -> OutputLengths] }

\* constructor strengths of the belief left to recover: the ends and the middle
\* of [0,1]
RecoveryBaselines == {0, Milli(500), Unit}

\* what displaces it, <<valence, intensity, loss_aversion_factor>>: a trauma of
\* ordinary size, and one large enough to reach either end of [0,1]
RecoveryFeeds ==
    { <<"negative", Milli(950), 2 * Unit>>,
      <<"negative", 5 * Unit, 20 * Unit>>, <<"negative", 5 * Unit, -20 * Unit>> }

\* the routine experience of the demonstration loop
RoutineExperience == Experience("Small positive", "positive", Milli(300), "routine")

\* lengths of the routine loop
LoopCounts == {8, 98}

\* inputs of weighted_value
ValueIntensities ==
    {0, 1, Milli(300), Milli(333), Milli(800), Milli(900), Milli(1000), 5 * Unit, -Milli(500)}

ValueFactors == {0, Unit, 3 * Milli(500), 2 * Unit, 20 * Unit, -Unit}

\* experiences given to the emotion system: on both sides of the fear and shame
\* triggers, one that triggers no template, one at zero and two above 1
EmotionExperiences ==
    { Experience("x", "negative", Milli(950), "s"),
      Experience("x", "negative", 3 * Milli(500), "s"),
      Experience("x", "negative", Milli(650), "s"),
      Experience("x", "positive", Milli(800), "s"),
      Experience("x", "positive", 2 * Unit, "s"),
      Experience("x", "positive", 0, "s"),
      Experience("x", "neutral", Milli(500), "s") }

\* the template called directly
DirectNames == {"comfort"}

\* activate arguments <<intensity, duration>>
ActivateArguments ==
    { <<Milli(500), 3>>, <<Milli(800), 1>>, <<3 * Milli(500), 2>>, <<-Milli(500), 0>> }

\* decay_rate arguments (0.3 is the default)
DecayRates == {Milli(300), Milli(500)}

\* experiences of the lifecycle: one that triggers fear, shame and loneliness, one
\* that triggers comfort and pride, one that triggers nothing
LifecycleExperiences ==
    { Experience("x", "negative", Milli(950), "s"),
      Experience("x", "positive", Milli(800), "s"),
      Experience("x", "positive", 0, "s") }

\* pride_sensitivity arguments (1.0 is the default, 1.2 the demonstration's)
PrideSensitivities == {Unit, Milli(1200)}

\* aspirations <<name, domain_vector, strength, integration_style>>: along either
\* axis, optional and mandatory, and one that replaces another of its name
AspirationArguments ==
    { <<"leader", <<Unit, 0>>, Milli(700), "optional">>,
      <<"mastery", <<0, Unit>>, Milli(550), "mandatory">>,
      <<"leader", <<Milli(300), Milli(400)>>, Unit, "mandatory">> }

\* actions <<content, domain_vector, recognition_type>>: alignments with the axes
\* on both sides of 0.3 and 0.4, an opposite vector and one of another length
PrideActions ==
    { <<"a", <<Milli(250), Milli(600)>>, "authority">>,
      <<"b", <<Unit, 0>>, "self">>,
      <<"c", <<Milli(960), Milli(280)>>, "public">>,
      <<"d", <<-Unit, 0>>, "peer">>,
      <<"e", <<Milli(600), Milli(800), 0>>, "peer">> }

\* comfort_sensitivity arguments (1.0 is the default, 1.2 the demonstration's)
ComfortSensitivities == {Unit, Milli(1200)}

\* belief names of the comfortable identity: one with a stability indicator,
\* one with none
ComfortBeliefNames == {"stable", "leader"}

\* inputs <<content, semantic_vector, confidence, predictability>>: aligned with
\* the defaults, aligned and out of range, opposed, and across without confidence
ComfortInputs ==
    { <<"calm", <<Unit, 0, 0, 0>>, Milli(800), Milli(700)>>,
      <<"sure", <<Milli(500), 0, 0, 0>>, 3 * Milli(500), Unit>>,
      <<"odd", <<-Unit, 0, 0, 0>>, Milli(800), Milli(700)>>,
      <<"shock", <<0, Unit, 0, 0>>, -Milli(500), Milli(700)>> }

\* change_magnitude arguments of add_identity_change
ChangeMagnitudes == {Milli(200)}

\* shame_sensitivity arguments (1.0 is the default, 1.2 the demonstration's)
ShameSensitivities == {Unit, Milli(1200)}

\* standards <<name, description, strength>>, in the order they are added: one
\* whose description holds its keyword, one of another dimension, and one whose
\* name begins like the violation name of a belief
StandardArguments ==
    << <<(<<"calm">>), <<"remain", "calm">>, Milli(900)>>,
       <<(<<"honest">>), <<>>, Milli(700)>>,
       <<(<<"belief:", "calm">>), <<>>, Milli(900)>> >>

\* the beliefs of the ashamed identity, in the order they are added
ShameBeliefOrder == << <<"calm">>, <<"kind">> >>

\* the constructor strength of each
ShameBeliefStrengths == <<Milli(800), Milli(600)>>

\* actions <<content, exposure_level>>: against a standard in public, along one,
\* against another fully exposed, and one without keywords nearly in private
ShameActions ==
    { <<(<<"angry">>), Milli(800)>>, <<(<<"calm">>), Milli(500)>>,
      <<(<<"lie">>), Unit>>, <<(<<"hello">>), Milli(100)>> }

\* the aspiration <<name, domain_vector, strength, integration_style>> of the
\* identity whose pride is left to decay
DecayAspiration == <<"leader", <<Unit, 0>>, Milli(400), "optional">>

\* its achievements <<content, domain_vector, recognition_type>>: pride of
\* duration 1 and of duration 2
DecayPrideActions == { <<"b", <<Unit, 0>>, "self">>, <<"p", <<Unit, 0>>, "peer">> }

\* the standard <<name, description, strength>> of the identity whose shame is
\* left to decay
DecayStandard == <<(<<"honest">>), <<>>, Milli(700)>>

\* its actions <<content, exposure_level>>: shame of duration 1 and of duration 2
DecayShameActions == { <<(<<"angry">>), Milli(800)>>, <<(<<"lie">>), Milli(700)>> }

\* activate arguments <<intensity, duration>> of the template left to decay
DecayActivateArguments == { <<Milli(400), 1>>, <<Milli(600), 2>> }

\* how many achieve_action calls the client makes
MaxAchievements == 2

\* how many calls the client of the emotion system makes
MaxEmotionCalls == 4

\* how many experiences are fed one at a time to a belief
MaxCalls == 2

\* how many recovery calls the scheduler makes
MaxRecoveries == 1

\* the experiences of a history that were fed one at a time
FedSingly(b) ==
    Cardinality({i \in DOMAIN b.experiences : b.experiences[i].source # "routine"})

---------------------------------------------------------------------------
\* Operations

\* no loop is under way
NoLoop == [target |-> "", left |-> 0]

Idle == loop = NoLoop

\* what no method of Belief or Identity touches
outsideIdentity == <<emotions, mods, calls, prideVars, comfortVars, shameVars, response>>

\* what no method of EmotionTemplate or EmotionSystem touches
outsideEmotions ==
    <<beliefs, mass, loop, recoveries, prideVars, comfortVars, shameVars, response>>

\* what no method of PrideCapableIdentity touches
outsidePride == <<loop, recoveries, emotions, mods, calls, comfortVars, shameVars, response>>

\* no respond call is under way
NoResponse == [outputs |-> <<>>, gravity_score |-> 0, returned |-> <<>>]

Init ==
    /\ recoveries = 0
    /\ loop = NoLoop
    /\ beliefs = [k \in {} |-> NewBelief("", 0, 0)]
    /\ mass = 0
    /\ last = Call("__init__", "", NoExperience, 0, NoLocals, 0, "none")
    /\ emotions = NewEmotionSystem
    /\ mods = NoMods
    /\ calls = 0
    /\ aspirations = <<>>
    /\ pride_sensitivity = Unit
    /\ current_pride = <<>>
    /\ recent_pride_states = <<>>
    /\ achieved = 0
    /\ comfort_sensitivity = Unit
    /\ current_comfort = <<>>
    /\ recent_identity_changes = 0
    /\ comfort_history = <<>>
    /\ standards = <<>>
    /\ shame_sensitivity = Unit
    /\ current_shame = <<>>
    /\ response = NoResponse

\* identity.add_belief(Belief(name, strength, experience_threshold))
AddBelief(name, strength, experience_threshold) ==
    /\ Idle
    /\ beliefs' = Put(beliefs, NewBelief(name, strength, experience_threshold))
    /\ mass' = RecalculateMass(beliefs')
    /\ last' = Call("add_belief", name, NoExperience, strength, NoLocals, 0, "none")
    /\ UNCHANGED <<loop, recoveries>>
    /\ UNCHANGED outsideIdentity

IntegrateExperience_AutoCreate(e, target_belief_name, loss_aversion_factor) ==
    /\ Idle
    /\ UNCHANGED <<loop, recoveries>>
    /\ UNCHANGED outsideIdentity
    /\ beliefs' = Put(beliefs, UpdateFromExperience(
                       IF target_belief_name \in DOMAIN beliefs
                       THEN beliefs[target_belief_name]
                       ELSE NewBelief(target_belief_name, Milli(500), 1000),
                       e, loss_aversion_factor))
    /\ FedSingly(beliefs'[target_belief_name]) <= MaxCalls
    /\ mass' = RecalculateMass(beliefs')
    /\ last' = Call("integrate_experience", target_belief_name, e,
                    loss_aversion_factor, NoLocals, 0, "none")

IntegrateExperience_Modulated(e, target_belief_name, loss_aversion_factor) ==
    LET felt == IF "intensity_multiplier" \in DOMAIN mods
                THEN [e EXCEPT !.intensity = Mul(@, mods["intensity_multiplier"])]
                ELSE e
    IN  /\ Idle
        /\ UNCHANGED <<loop, recoveries>>
        /\ UNCHANGED outsideIdentity
        /\ target_belief_name \in DOMAIN beliefs
        /\ FedSingly(beliefs[target_belief_name]) < MaxCalls
        /\ beliefs' = [beliefs EXCEPT ![target_belief_name] =
                        UpdateFromExperience(@, felt, loss_aversion_factor)]
        /\ mass' = RecalculateMass(beliefs')
        /\ last' = Call("integrate_experience", target_belief_name, e,
                     loss_aversion_factor,
                     UpdateLocals(beliefs[target_belief_name], felt, loss_aversion_factor),
                     0, "none")

\* identity.integrate_experience(e, target_belief_name, loss_aversion_factor)
IntegrateExperience(e, target_belief_name, loss_aversion_factor) ==
    /\ Idle
    /\ UNCHANGED <<loop, recoveries>>
    /\ UNCHANGED outsideIdentity
    /\ IF target_belief_name \in DOMAIN beliefs
       THEN /\ FedSingly(beliefs[target_belief_name]) < MaxCalls
            /\ beliefs' = [beliefs EXCEPT ![target_belief_name] =
                            UpdateFromExperience(@, e, loss_aversion_factor)]
            /\ mass' = RecalculateMass(beliefs')
            /\ last' = Call("integrate_experience", target_belief_name, e,
                         loss_aversion_factor,
                         UpdateLocals(beliefs[target_belief_name], e, loss_aversion_factor),
                         0, "none")
       ELSE /\ UNCHANGED <<beliefs, mass>>
            /\ last' = Call("integrate_experience", target_belief_name, e,
                         loss_aversion_factor, NoLocals, 0, NotFoundError)

\* belief.update_from_experience(e, loss_aversion_factor) on a belief the identity holds
BeliefUpdateFromExperience(name, e, loss_aversion_factor) ==
    /\ Idle
    /\ name \in DOMAIN beliefs
    /\ FedSingly(beliefs[name]) < MaxCalls
    /\ beliefs' = [beliefs EXCEPT ![name] = UpdateFromExperience(@, e, loss_aversion_factor)]
    /\ last' = Call("update_from_experience", name, e, loss_aversion_factor,
                    UpdateLocals(beliefs[name], e, loss_aversion_factor), 0, "none")
    /\ UNCHANGED <<mass, loop, recoveries>>
    /\ UNCHANGED outsideIdentity

\* belief.apply_elastic_recovery(recovery_factor) on a belief the identity holds
BeliefApplyElasticRecovery(name, recovery_factor) ==
    /\ Idle
    /\ name \in DOMAIN beliefs
    /\ recoveries < MaxRecoveries
    /\ recoveries' = recoveries + 1
    /\ beliefs' = [beliefs EXCEPT ![name] = ApplyElasticRecovery(@, recovery_factor)]
    /\ last' = Call("apply_elastic_recovery", name, NoExperience, recovery_factor,
                    NoLocals, 0, "none")
    /\ UNCHANGED <<mass, loop>>
    /\ UNCHANGED outsideIdentity

\* the demonstration's loop begins on a new belief: for i in range(n)
RoutineLoop(name, n) ==
    /\ Idle
    /\ name \in DOMAIN beliefs
    /\ beliefs[name].experiences = <<>>
    /\ loop' = [target |-> name, left |-> n]
    /\ last' = Call("routine_loop", name, RoutineExperience, 2 * Unit, NoLocals, n, "none")
    /\ UNCHANGED <<beliefs, mass, recoveries>>
    /\ UNCHANGED outsideIdentity

\* one round of the loop: test_belief.update_from_experience(small_exp)
RoutineStep ==
    /\ ~Idle
    /\ beliefs' = [beliefs EXCEPT ![loop.target] =
                       UpdateFromExperience(@, RoutineExperience, 2 * Unit)]
    /\ loop' = IF loop.left = 1 THEN NoLoop ELSE [loop EXCEPT !.left = @ - 1]
    /\ last' = Call("update_from_experience", loop.target, RoutineExperience, 2 * Unit,
                    UpdateLocals(beliefs[loop.target], RoutineExperience, 2 * Unit),
                    0, "none")
    /\ UNCHANGED <<mass, recoveries>>
    /\ UNCHANGED outsideIdentity

\* e.weighted_value(loss_aversion_factor)
CallWeightedValue(e, loss_aversion_factor) ==
    /\ Idle
    /\ last' = Call("weighted_value", "", e, loss_aversion_factor, NoLocals,
                    WeightedValue(e, loss_aversion_factor), "none")
    /\ UNCHANGED <<beliefs, mass, loop, recoveries>>
    /\ UNCHANGED outsideIdentity

\* identity.gravitational_resistance()
CallGravitationalResistance ==
    /\ Idle
    /\ last' = Call("gravitational_resistance", "", NoExperience, 0, NoLocals,
                    GravitationalResistance(mass), "none")
    /\ UNCHANGED <<beliefs, mass, loop, recoveries>>
    /\ UNCHANGED outsideIdentity

Next ==
    \/ \E n \in Names, s \in Strengths, t \in Thresholds : AddBelief(n, s, t)
    \/ \E e \in Experiences, n \in Names, f \in LossAversionFactors :
           IntegrateExperience(e, n, f)
    \/ \E e \in Experiences, n \in Names, f \in LossAversionFactors :
           BeliefUpdateFromExperience(n, e, f)
    \/ \E n \in Names, r \in RecoveryFactors : BeliefApplyElasticRecovery(n, r)
    \/ CallGravitationalResistance

\* an identity of up to two beliefs
Spec == Init /\ [][Next]_vars

NextBelief ==
    \/ \E n \in BeliefNames, a \in BeliefArguments : AddBelief(n, a[1], a[2])
    \/ \E n \in BeliefNames, x \in BeliefFeeds :
           BeliefUpdateFromExperience(n, Experience("x", x[1], x[2], "s"), x[3])
    \/ \E n \in BeliefNames, r \in BeliefRecoveryFactors :
           BeliefApplyElasticRecovery(n, r)
    \/ \E n \in BeliefNames, c \in LoopCounts : RoutineLoop(n, c)
    \/ RoutineStep

\* one belief, fed and recovered directly
SpecBelief == Init /\ [][NextBelief]_vars

\* emotion_system.process_experience(e, belief)
CallProcessExperience(e) ==
    /\ Idle
    /\ emotions' = ProcessExperience(emotions, e).emotions
    /\ mods' = ProcessExperience(emotions, e).returned
    /\ last' = Call("process_experience", "", e, 0, NoLocals, 0, "none")
    /\ UNCHANGED outsideEmotions

\* emotion_system.emotions[name].activate(intensity, duration)
TemplateActivate(name, intensity, duration) ==
    /\ Idle
    /\ emotions' = [emotions EXCEPT ![name] = Activate(@, intensity, duration)]
    /\ last' = Call("activate", name, NoExperience, intensity,
                    [duration |-> duration], 0, "none")
    /\ UNCHANGED <<mods, outsideEmotions>>

\* emotion_system.emotions[name].decay(decay_rate)
TemplateDecay(name, decay_rate) ==
    /\ Idle
    /\ emotions' = [emotions EXCEPT ![name] = Decay(@, decay_rate)]
    /\ last' = Call("decay", name, NoExperience, decay_rate, NoLocals, 0, "none")
    /\ UNCHANGED <<mods, outsideEmotions>>

\* the client makes one more of its calls
Counted ==
    /\ calls < MaxEmotionCalls
    /\ calls' = calls + 1

NextEmotion ==
    \/ \E e \in EmotionExperiences : CallProcessExperience(e) /\ Counted
    \/ \E n \in DirectNames, a \in ActivateArguments :
           TemplateActivate(n, a[1], a[2]) /\ Counted
    \/ \E n \in DirectNames, r \in DecayRates : TemplateDecay(n, r) /\ Counted

\* an emotion system given experiences, and templates of it called directly
SpecEmotion == Init /\ [][NextEmotion]_vars

NextFelt ==
    \/ \E n \in BeliefNames, s \in Strengths, t \in Thresholds : AddBelief(n, s, t)
    \/ \E e \in Experiences, n \in BeliefNames, f \in LossAversionFactors :
           IntegrateExperience(e, n, f)
    \/ \E e \in Experiences : CallProcessExperience(e) /\ Counted

\* an identity whose client also runs experiences through an emotion system
SpecFelt == Init /\ [][NextFelt]_vars

NextLifecycle ==
    \E e \in LifecycleExperiences : CallProcessExperience(e) /\ UNCHANGED calls

\* an emotion system whose client keeps calling: experiences keep being processed
\* for as long as a call changes anything
SpecLifecycle == Init /\ [][NextLifecycle]_vars /\ WF_vars(NextLifecycle)

\* PrideCapableIdentity(core_label, pride_sensitivity=sensitivity)
NewPrideCapableIdentity(sensitivity) ==
    /\ last.op = "__init__"
    /\ last.arg = 0
    /\ pride_sensitivity' = sensitivity
    /\ last' = Call("__init__", "", NoExperience, sensitivity, NoLocals, 0, "none")
    /\ UNCHANGED <<beliefs, mass, outsidePride>>
    /\ UNCHANGED <<aspirations, current_pride, recent_pride_states, achieved>>

\* identity.add_aspiration(aspiration)
AddAspiration(aspiration) ==
    /\ Idle
    /\ aspirations' = PutAspiration(aspirations, aspiration)
    /\ last' = Call("add_aspiration", aspiration.name, NoExperience, aspiration.strength,
                    NoLocals, 0, "none")
    /\ UNCHANGED <<beliefs, mass, outsidePride>>
    /\ UNCHANGED <<pride_sensitivity, current_pride, recent_pride_states, achieved>>

\* identity.achieve_action(action)
AchieveAction(action) ==
    \E looped \in {AchieveLoop(AchieveLocals(aspirations, beliefs, mass),
                               Len(aspirations), action, pride_sensitivity)} :
    LET emits == looped.max_pride_intensity > Milli(200)
        pride_emotion == PrideEmotion(looped.max_pride_intensity, action.content,
                                      looped.best_aspiration)
    IN
    \E done \in {IF emits THEN ApplyPrideEffects(looped, pride_emotion) ELSE looped} :
        /\ Idle
        /\ achieved < MaxAchievements
        /\ achieved' = achieved + 1
        /\ aspirations' = done.aspirations
        /\ beliefs' = done.beliefs
        /\ mass' = done.mass
        /\ current_pride' = IF emits THEN <<pride_emotion>> ELSE current_pride
        /\ recent_pride_states' =
               IF emits THEN RecordPrideState(recent_pride_states, pride_emotion, action)
               ELSE recent_pride_states
        /\ last' = Call("achieve_action", looped.best_aspiration, NoExperience, action,
                        [max_pride_intensity |-> looped.max_pride_intensity],
                        [pride_emotion |-> IF emits THEN <<pride_emotion>> ELSE <<>>,
                         alignment_scores |-> done.alignment_scores,
                         triggered_effects |-> done.triggered_effects],
                        "none")
        /\ UNCHANGED <<pride_sensitivity, outsidePride>>

NextPride ==
    \/ \E s \in PrideSensitivities : NewPrideCapableIdentity(s)
    \/ \E n \in BeliefNames, t \in Thresholds : AddBelief(n, Milli(600), t)
    \/ \E aspiration \in {Aspiration(a[1], a[2], a[3], a[4]) : a \in AspirationArguments} :
           AddAspiration(aspiration)
    \/ \E action \in {PrideAction(a[1], a[2], a[3]) : a \in PrideActions} :
           AchieveAction(action)

\* an identity with aspirations, given achievements
SpecPride == Init /\ [][NextPride]_vars

\* what no method of ComfortCapableIdentity touches, but for the client's count
outsideComfort == <<loop, recoveries, emotions, mods, prideVars, shameVars, response>>

\* ComfortCapableIdentity(core_label, comfort_sensitivity)
NewComfortCapableIdentity(sensitivity) ==
    /\ last.op = "__init__"
    /\ last.arg = 0
    /\ comfort_sensitivity' = sensitivity
    /\ last' = Call("__init__", "", NoExperience, sensitivity, NoLocals, 0, "none")
    /\ UNCHANGED <<beliefs, mass, calls, outsideComfort>>
    /\ UNCHANGED <<current_comfort, recent_identity_changes, comfort_history>>

\* identity.process_input(comfort_input)
ProcessInput(comfort_input) ==
    \E metrics \in
        { [alignment |-> m[1], certainty |-> m[2], identity_coherence |-> m[3],
           comfort_intensity |-> CalculateComfortIntensity(m[1], m[2], m[3],
                                                           comfort_sensitivity)] :
          m \in { << CalculateSemanticAlignment(
                         comfort_input.semantic_vector,
                         [k \in DOMAIN beliefs |-> EncodeBeliefSemantics(beliefs[k])]),
                     CalculateCertaintyLevel(comfort_input.confidence,
                                             comfort_input.predictability),
                     CalculateIdentityCoherence(mass, recent_identity_changes) >> } } :
    LET established ==
            /\ metrics.alignment >= ComfortState.alignment_threshold
            /\ metrics.certainty >= ComfortState.certainty_threshold
            /\ metrics.comfort_intensity > Milli(300)
        comfort_emotion == ComfortEmotion(metrics.comfort_intensity, comfort_input.content,
                                          metrics.identity_coherence)
        disruption_factors == GetDisruptionFactors(comfort_input)
        detected == DetectComfortInterruption(disruption_factors.semantic_novelty,
                                              disruption_factors.low_confidence,
                                              disruption_factors.unpredictability)
        interruption_strength ==
            Max(disruption_factors.low_confidence,
                Max(disruption_factors.unpredictability, disruption_factors.semantic_novelty))
        interrupts == ~established /\ current_comfort # <<>> /\ detected.should_interrupt
    IN
    \E interrupted \in {IF interrupts
                        THEN <<Interrupt(current_comfort[1], interruption_strength)>>
                        ELSE <<>>} :
    \E effected \in {IF established
                     THEN ApplyComfortEffects(beliefs, recent_identity_changes, comfort_emotion)
                     ELSE [beliefs |-> beliefs,
                           recent_identity_changes |-> recent_identity_changes]} :
        /\ Idle
        /\ current_comfort' =
               IF established THEN <<comfort_emotion>>
               ELSE IF interrupts
                    THEN IF ComfortIsActive(interrupted[1]) THEN interrupted ELSE <<>>
                    ELSE current_comfort
        /\ beliefs' = effected.beliefs
        /\ recent_identity_changes' = effected.recent_identity_changes
        /\ mass' = IF established THEN RecalculateMass(effected.beliefs) ELSE mass
        /\ comfort_history' =
               RecordComfortState(comfort_history,
                                  IF established THEN <<comfort_emotion>> ELSE <<>>,
                                  comfort_input, metrics)
        /\ last' = Call("process_input", "", NoExperience, comfort_input,
                        [interrupted |-> interrupted,
                         interruption_strength |-> IF interrupts THEN interruption_strength
                                                   ELSE 0],
                        [comfort_emotion |-> IF established THEN <<comfort_emotion>> ELSE <<>>,
                         metrics |-> metrics,
                         effects |->
                             IF established THEN <<(<<"Comfort established", comfort_input.content>>)>>
                             ELSE IF interrupts
                                  THEN <<(<<"Comfort interrupted by", detected.reason>>)>>
                                       \o (IF ComfortIsActive(interrupted[1]) THEN <<>>
                                           ELSE <<(<<"Comfort state ended", "">>)>>)
                                  ELSE <<>>],
                        "none")
        /\ UNCHANGED <<comfort_sensitivity, outsideComfort>>

\* identity.process_comfort_decay()
ProcessComfortDecay ==
    /\ Idle
    /\ current_comfort' =
           IF current_comfort # <<>> /\ ComfortIsActive(current_comfort[1])
           THEN <<ComfortDecay(current_comfort[1])>>
           ELSE <<>>
    /\ last' = Call("process_comfort_decay", "", NoExperience, 0, NoLocals, 0, "none")
    /\ UNCHANGED <<beliefs, mass, outsideComfort>>
    /\ UNCHANGED <<comfort_sensitivity, recent_identity_changes, comfort_history>>

\* identity.add_identity_change(change_magnitude)
AddIdentityChange(change_magnitude) ==
    /\ Idle
    /\ recent_identity_changes' =
           Mul(Min(Unit, recent_identity_changes + change_magnitude), Milli(950))
    /\ last' = Call("add_identity_change", "", NoExperience, change_magnitude, NoLocals, 0,
                    "none")
    /\ UNCHANGED <<beliefs, mass, outsideComfort>>
    /\ UNCHANGED <<comfort_sensitivity, current_comfort, comfort_history>>

NextComfort ==
    \/ \E s \in ComfortSensitivities : NewComfortCapableIdentity(s)
    \/ \E n \in ComfortBeliefNames \ DOMAIN beliefs :
           calls = 0 /\ AddBelief(n, Milli(900), 1000)
    \/ \E comfort_input \in {ComfortInput(a[1], a[2], a[3], a[4]) : a \in ComfortInputs} :
           ProcessInput(comfort_input) /\ Counted
    \/ ProcessComfortDecay /\ Counted
    \/ \E c \in ChangeMagnitudes : AddIdentityChange(c) /\ Counted

\* an identity that takes comfort, given inputs
SpecComfort == Init /\ [][NextComfort]_vars

\* what no method of ShameCapableIdentity touches, but for the client's count
outsideShame == <<loop, recoveries, emotions, mods, prideVars, comfortVars, response>>

\* ShameCapableIdentity(core_label, shame_sensitivity)
NewShameCapableIdentity(sensitivity) ==
    /\ last.op = "__init__"
    /\ last.arg = 0
    /\ shame_sensitivity' = sensitivity
    /\ last' = Call("__init__", "", NoExperience, sensitivity, NoLocals, 0, "none")
    /\ UNCHANGED <<beliefs, mass, calls, outsideShame>>
    /\ UNCHANGED <<standards, current_shame>>

\* identity.add_standard(standard)
AddStandard(standard) ==
    /\ Idle
    /\ standards' = PutAspiration(standards, standard)
    /\ last' = Call("add_standard", standard.name, NoExperience, standard.strength,
                    NoLocals, 0, "none")
    /\ UNCHANGED <<beliefs, mass, calls, outsideShame>>
    /\ UNCHANGED <<shame_sensitivity, current_shame>>

\* identity.perform_action(action)
PerformAction(action) ==
    \E looped \in {BeliefsLoop(StandardsLoop(standards, Len(standards), action,
                                             shame_sensitivity),
                               beliefs, ShameBeliefOrder, Len(ShameBeliefOrder), action,
                               shame_sensitivity)} :
    LET emits == looped.max_shame_intensity > Milli(100)
        shame_emotion == ShameEmotion(looped.max_shame_intensity, looped.worst_violation)
    IN
    \E effected \in {IF emits
                     THEN ApplyShameEffects(standards, beliefs, shame_emotion,
                                            looped.worst_violation)
                     ELSE [standards |-> standards, beliefs |-> beliefs]} :
        /\ Idle
        /\ standards' = effected.standards
        /\ beliefs' = effected.beliefs
        /\ mass' = IF /\ emits
                      /\ StartsWithBelief(looped.worst_violation)
                      /\ ReplaceBelief(looped.worst_violation) \in DOMAIN beliefs
                   THEN RecalculateMass(effected.beliefs)
                   ELSE mass
        /\ current_shame' = IF emits THEN <<shame_emotion>> ELSE current_shame
        /\ last' = Call("perform_action", "", NoExperience, action,
                        [max_shame_intensity |-> looped.max_shame_intensity,
                         worst_violation |-> looped.worst_violation],
                        [shame_emotion |-> IF emits THEN <<shame_emotion>> ELSE <<>>,
                         dissonance_scores |-> looped.dissonance_scores],
                        "none")
        /\ UNCHANGED <<shame_sensitivity, outsideShame>>

\* identity.process_shame_decay()
ProcessShameDecay ==
    /\ Idle
    /\ current_shame' =
           IF current_shame # <<>> /\ ShameIsActive(current_shame[1])
           THEN <<ShameDecay(current_shame[1])>>
           ELSE <<>>
    /\ last' = Call("process_shame_decay", "", NoExperience, 0, NoLocals, 0, "none")
    /\ UNCHANGED <<beliefs, mass, outsideShame>>
    /\ UNCHANGED <<standards, shame_sensitivity>>

NextShame ==
    \/ \E s \in ShameSensitivities : NewShameCapableIdentity(s)
    \/ \E i \in DOMAIN ShameBeliefOrder :
           /\ calls = 0
           /\ DOMAIN beliefs = {ShameBeliefOrder[j] : j \in 1..(i - 1)}
           /\ AddBelief(ShameBeliefOrder[i], ShameBeliefStrengths[i], 1000)
    \/ \E i \in DOMAIN StandardArguments :
       \E standard \in {InternalizedStandard(a[1], a[2], a[3]) :
                            a \in {StandardArguments[i]}} :
           /\ calls = 0
           /\ Len(standards) = i - 1
           /\ AddStandard(standard)
    \/ \E action \in {ShameAction(a[1], a[2]) : a \in ShameActions} :
           PerformAction(action) /\ Counted
    \/ ProcessShameDecay /\ Counted

\* an identity with standards, given actions
SpecShame == Init /\ [][NextShame]_vars

\* identity.process_pride_decay()
ProcessPrideDecay ==
    /\ Idle
    /\ current_pride' =
           IF current_pride # <<>> /\ PrideIsActive(current_pride[1])
           THEN <<PrideDecay(current_pride[1])>>
           ELSE <<>>
    /\ last' = Call("process_pride_decay", "", NoExperience, 0, NoLocals, 0, "none")
    /\ UNCHANGED <<beliefs, mass, loop, recoveries, emotions, mods, comfortVars,
                   shameVars, response>>
    /\ UNCHANGED <<aspirations, pride_sensitivity, recent_pride_states, achieved>>

NextDecay ==
    \/ \E aspiration \in {Aspiration(a[1], a[2], a[3], a[4]) : a \in {DecayAspiration}} :
           /\ aspirations = <<>>
           /\ calls = 0
           /\ achieved = 0
           /\ AddAspiration(aspiration)
    \/ \E standard \in {InternalizedStandard(a[1], a[2], a[3]) : a \in {DecayStandard}} :
           /\ standards = <<>>
           /\ calls = 0
           /\ achieved = 0
           /\ AddStandard(standard)
    \/ \E action \in {PrideAction(a[1], a[2], a[3]) : a \in DecayPrideActions} :
           AchieveAction(action)
    \/ ProcessPrideDecay /\ Counted
    \/ \E action \in {ShameAction(a[1], a[2]) : a \in DecayShameActions} :
           PerformAction(action) /\ Counted
    \/ ProcessShameDecay /\ Counted
    \/ \E n \in DirectNames, a \in DecayActivateArguments :
           TemplateActivate(n, a[1], a[2]) /\ Counted
    \/ \E n \in DirectNames : TemplateDecay(n, Milli(300)) /\ Counted

\* a client that holds an identity with an aspiration, an identity with a
\* standard and an emotion system, and lets the emotions of each decay
SpecDecay == Init /\ [][NextDecay]_vars

\* the scheduler's periodic call: belief.apply_elastic_recovery()
ScheduledRecovery(name) ==
    /\ Idle
    /\ name \in DOMAIN beliefs
    /\ beliefs' = [beliefs EXCEPT ![name] = ApplyElasticRecovery(@, Milli(10))]
    /\ last' = Call("apply_elastic_recovery", name, NoExperience, Milli(10),
                    NoLocals, 0, "none")
    /\ UNCHANGED <<mass, loop, recoveries>>
    /\ UNCHANGED outsideIdentity

NextRecovery ==
    \/ \E n \in BeliefNames, s \in RecoveryBaselines :
           /\ last.op = "__init__"
           /\ AddBelief(n, s, 1000)
    \/ \E n \in BeliefNames, x \in RecoveryFeeds :
           /\ last.op # "apply_elastic_recovery"
           /\ BeliefUpdateFromExperience(n, Experience("x", x[1], x[2], "s"), x[3])
    \/ \E n \in BeliefNames : ScheduledRecovery(n)

\* a belief displaced by experiences and then left to a scheduler that keeps
\* calling apply_elastic_recovery
SpecRecovery ==
    Init /\ [][NextRecovery]_vars /\ WF_vars(\E n \in BeliefNames : ScheduledRecovery(n))

\* respond(prompt), run_model returning outputs
Respond(outputs) ==
    \E temp_identity \in {RespondLoop(TempIdentity, outputs, Len(outputs))} :
    \E gravity_score \in {GravitationalResistance(temp_identity.mass)} :
        /\ Idle
        /\ response' = [outputs |-> outputs, gravity_score |-> gravity_score,
                        returned |-> IdentityTone(outputs[1], gravity_score)]
        /\ last' = Call("respond", "response_consistency", NoExperience, outputs,
                        [temp_identity |-> temp_identity],
                        IdentityTone(outputs[1], gravity_score), "none")
        /\ UNCHANGED <<beliefs, mass, loop, recoveries, emotions, mods, calls,
                       prideVars, comfortVars, shameVars>>

NextRespond == \E outputs \in RunModel : Respond(outputs)

\* an agent asked to respond, the model returning outputs of any of the lengths
SpecRespond == Init /\ [][NextRespond]_vars

NextValue ==
    \E i \in ValueIntensities, v \in {"positive", "negative"}, f \in ValueFactors :
        CallWeightedValue(Experience("x", v, i, "s"), f)

\* weighted_value alone
SpecValue == Init /\ [][NextValue]_vars

---------------------------------------------------------------------------
\* Properties

\* the last call was an update_from_experience that returned, directly or through
\* integrate_experience
IsUpdate(l) ==
    /\ l.op \in {"update_from_experience", "integrate_experience"}
    /\ l.error = "none"

\* this step is one update_from_experience call on belief t
UpdateStep(t) ==
    /\ IsUpdate(last')
    /\ last'.target = t
    /\ t \in DOMAIN beliefs
    /\ t \in DOMAIN beliefs'
    /\ Len(beliefs'[t].experiences) = Len(beliefs[t].experiences) + 1

\* this step is one apply_elastic_recovery call
RecoveryStep ==
    /\ last'.op = "apply_elastic_recovery"
    /\ recoveries' = recoveries + 1

\* the strengths of the beliefs the identity holds, added up
TotalStrength ==
    LET S(n) == IF n \in DOMAIN beliefs THEN beliefs[n].strength ELSE 0
    IN  S("leader") + S("test")

\* C1: the strength of every belief is in [0,1], whatever strength it was
\* constructed with and whatever experiences and recoveries it was given.
C1_StrengthInRange ==
    \A n \in DOMAIN beliefs :
        beliefs[n].strength >= 0 /\ beliefs[n].strength <= Unit

\* a second traumatic experience has just driven a belief's strength to the floor
C1_Witness ==
    /\ IsUpdate(last)
    /\ last.exp.valence = "negative"
    /\ last.exp.intensity > Unit
    /\ last.locals.before + last.locals.change < 0
    /\ Len(beliefs[last.target].experiences) >= 2
    /\ beliefs[last.target].strength = 0

\* C2: right after add_belief and after a successful integrate_experience, mass
\* is the sum of the strengths of the beliefs held; gravitational_resistance
\* returns mass squared.
C2_MassIsSum ==
    /\ (last.op = "add_belief" \/ (last.op = "integrate_experience" /\ last.error = "none"))
           => mass = TotalStrength
    /\ last.op = "gravitational_resistance" => last.result = Mul(mass, mass)

\* add_belief has just replaced the only belief, which had been recovered before
C2_Witness ==
    /\ last.op = "add_belief"
    /\ recoveries > 0
    /\ DOMAIN beliefs = {last.target}
    /\ mass = Milli(600)

\* C3: mass is the sum of the strengths of the beliefs held in every state, also
\* when a held belief is updated or recovered directly.
C3_MassNeverStale == mass = TotalStrength

\* C4: integrate_experience for a name that is no key of beliefs raises an error
\* and leaves beliefs (keys, strengths, histories) and mass as they were.
C4_AbsentTargetFails ==
    [][(last'.op = "integrate_experience" /\ last'.target \notin DOMAIN beliefs)
          => (last'.error # "none" /\ beliefs' = beliefs /\ mass' = mass)]_vars

\* the call failed while the identity held another belief
C4_Witness ==
    /\ last.op = "integrate_experience"
    /\ last.error # "none"
    /\ last.target \notin DOMAIN beliefs
    /\ DOMAIN beliefs # {}
    /\ mass > 0

C6_WeightedValue ==
    last.op = "weighted_value" =>
        /\ last.exp.valence = "positive" => last.result = last.exp.intensity
        /\ last.exp.valence = "negative" => last.result = -Mul(last.exp.intensity, last.arg)
        /\ (last.exp.intensity = Milli(800) /\ last.arg = 2 * Unit) =>
               last.result = IF last.exp.valence = "positive" THEN Milli(800) ELSE -Milli(1600)

\* the negative experience of intensity 0.8 was valued at -1.6
C6_Witness ==
    /\ last.op = "weighted_value"
    /\ last.exp.valence = "negative"
    /\ last.exp.intensity = Milli(800)
    /\ last.arg = 2 * Unit
    /\ last.result = -Milli(1600)

\* the history length the weight of the last update was computed for
C7_K == Len(beliefs[last.target].experiences)

\* C7 (as stated): the k-th experience of a belief is weighted 1.0 for k < 10, 0.5
\* for 10 <= k < 100, 0.2 for 100 <= k < experience_threshold and 0.1 for
\* k >= experience_threshold.
C7_WeightByCount ==
    IsUpdate(last) =>
        LET w == last.locals.experience_weight
            t == beliefs[last.target].experience_threshold
        IN  /\ C7_K < 10 => w = Unit
            /\ (10 <= C7_K /\ C7_K < 100) => w = Milli(500)
            /\ (100 <= C7_K /\ C7_K < t) => w = Milli(200)
            /\ C7_K >= t => w = Milli(100)

\* C7 (amended): the weight is computed from the history with the experience
\* already in it, and the tiers are tried in order: 1.0 for k < 10, 0.5 for
\* 10 <= k < 100, 0.2 for 100 <= k < experience_threshold, and 0.1 only for
\* k >= 100 and k >= experience_threshold.
C7_WeightByCountInOrder ==
    IsUpdate(last) =>
        LET w == last.locals.experience_weight
            t == beliefs[last.target].experience_threshold
        IN  /\ C7_K < 10 => w = Unit
            /\ (10 <= C7_K /\ C7_K < 100) => w = Milli(500)
            /\ (100 <= C7_K /\ C7_K < t) => w = Milli(200)
            /\ (100 <= C7_K /\ C7_K >= t) => w = Milli(100)

\* the tenth experience of a belief was weighted 0.5
C7_Witness ==
    /\ IsUpdate(last)
    /\ C7_K = 10
    /\ last.locals.experience_weight = Milli(500)

\* C8: the scaling factor of an update is 0.05 exactly when the experience is
\* negative with intensity above 0.9, and 0.001 otherwise, a factor of 50.
C8_ScalingFactor ==
    IsUpdate(last) =>
        /\ last.locals.scaling_factor =
               IF last.exp.valence = "negative" /\ last.exp.intensity > Milli(900)
               THEN Milli(50) ELSE Milli(1)
        /\ Milli(50) = 50 * Milli(1)

\* a negative experience of intensity exactly 0.9 was scaled by 0.001
C8_Witness ==
    /\ IsUpdate(last)
    /\ last.exp.valence = "negative"
    /\ last.exp.intensity = Milli(900)
    /\ last.locals.scaling_factor = Milli(1)

\* the elastic factor for a distance from the baseline
C9_Factor(d) ==
    IF d < Milli(100) THEN Unit ELSE IF d < Milli(300) THEN Milli(700) ELSE Milli(300)

\* C9: the elastic resistance of an update is 1.0, 0.7 or 0.3 for a distance
\* |strength - baseline_strength| before the update below 0.1, below 0.3 or not;
\* and when the same positive experience is fed twice in a row to a belief at or
\* above its baseline, the second increment of strength is no larger than the
\* first, and smaller when the resistance rose in between.
C9_ElasticResistance ==
    [][\A t \in DOMAIN beliefs : UpdateStep(t) =>
          LET b == beliefs[t]
              inc1 == last.locals.strength - last.locals.before
              inc2 == beliefs'[t].strength - b.strength
          IN  /\ last'.locals.elastic_resistance =
                     C9_Factor(Abs(b.strength - b.baseline_strength))
              /\ ( /\ IsUpdate(last)
                   /\ last.target = t
                   /\ last.exp = last'.exp
                   /\ last.exp.valence = "positive"
                   /\ last.locals.before >= b.baseline_strength
                   /\ b.strength >= b.baseline_strength )
                 => /\ inc2 <= inc1
                    /\ last'.locals.elastic_resistance < last.locals.elastic_resistance
                           => inc2 < inc1]_vars

\* the same positive experience was fed again right after the distance from the
\* baseline crossed 0.1, at resistance 0.7
C9_Witness ==
    /\ IsUpdate(last)
    /\ last.exp.valence = "positive"
    /\ Len(beliefs[last.target].experiences) = 4
    /\ beliefs[last.target].experiences[3] = last.exp
    /\ last.locals.before >= beliefs[last.target].baseline_strength + Milli(100)
    /\ last.locals.before < beliefs[last.target].baseline_strength + Milli(101)
    /\ last.locals.elastic_resistance = Milli(700)
    /\ last.locals.change > 0

\* C10: apply_elastic_recovery(r) leaves the belief as it is when strength is
\* within 0.05 of baseline_strength; otherwise strength moves by r toward the
\* baseline, clamped to [0,1]; nothing else of the belief changes.
C10_ElasticRecovery ==
    [][RecoveryStep =>
          LET t == last'.target
              r == last'.arg
              b == beliefs[t]
          IN  /\ mass' = mass
              /\ beliefs' = [beliefs EXCEPT ![t].strength =
                     IF Abs(b.strength - b.baseline_strength) <= Milli(50) THEN b.strength
                     ELSE IF b.strength < b.baseline_strength
                          THEN Max(0, Min(Unit, b.strength + r))
                          ELSE Max(0, Min(Unit, b.strength - r))]]_vars

\* a recovery by 0.9 from below the baseline 0.6 was cut off at 1
C10_Witness ==
    /\ last.op = "apply_elastic_recovery"
    /\ last.arg = Milli(900)
    /\ beliefs[last.target].baseline_strength = Milli(600)
    /\ beliefs[last.target].strength = Unit
    /\ Len(beliefs[last.target].experiences) = 2

\* a positive experience was fed to a belief below full strength and this step
\* feeds the same belief a negative one of the same intensity, both with the
\* default loss_aversion_factor
C11_Pair ==
    /\ IsUpdate(last)
    /\ last.exp.valence = "positive"
    /\ last.exp.intensity > 0
    /\ last.exp.intensity <= Milli(900)
    /\ last.arg = 2 * Unit
    /\ last.locals.before < Unit
    /\ UpdateStep(last.target)
    /\ last'.exp.valence = "negative"
    /\ last'.exp.intensity = last.exp.intensity
    /\ last'.arg = 2 * Unit

\* C11 (as stated): from any strength below 1 reached by update_from_experience
\* alone, a positive experience followed by a negative one of the same intensity
\* in (0, 0.9] leaves strength strictly below its value before the pair.
C11_LossDominates ==
    [][(C11_Pair /\ recoveries = 0)
          => beliefs'[last.target].strength < last.locals.before]_vars

\* C11 (amended): on a belief changed by update_from_experience alone, the pair
\* leaves strength strictly below its value before the pair when that value is
\* above 0, the negative experience is weighed in the same experience-weight
\* tier as the positive one and the elastic resistance has not fallen to 0.3
\* between the two.
C11_LossDominatesWithinTier ==
    [][(/\ C11_Pair
        /\ recoveries = 0
        /\ last.locals.before > 0
        /\ last'.locals.experience_weight = last.locals.experience_weight
        /\ (last'.locals.elastic_resistance = Milli(300)
               => last.locals.elastic_resistance = Milli(300)))
          => beliefs'[last.target].strength < last.locals.before]_vars

\* the pair has been fed within one tier and strength ended below 0.6, where it
\* had started
C11_Witness ==
    /\ IsUpdate(last)
    /\ last.exp = Experience("x", "negative", Milli(800), "s")
    /\ last.arg = 2 * Unit
    /\ Len(beliefs[last.target].experiences) = 2
    /\ beliefs[last.target].experiences[1] = Experience("x", "positive", Milli(800), "s")
    /\ last.locals.experience_weight = Unit
    /\ last.locals.before = 600320
    /\ beliefs[last.target].strength < Milli(600)

\* template n after the first loop of the process_experience call this step makes
C14_Post(n) ==
    LET x == last'.exp.intensity
        negative == last'.exp.valence = "negative"
        positive == last'.exp.valence = "positive"
        capped(v) == IF v > Unit THEN Unit ELSE v
        trigger ==
            CASE n = "fear" -> IF negative /\ x > Milli(700)
                               THEN capped(2 * (x - Milli(700))) ELSE 0
              [] n = "shame" -> IF negative /\ x > Milli(600)
                                THEN capped((3 * (x - Milli(600))) \div 2) ELSE 0
              [] n = "comfort" -> IF positive THEN (6 * x) \div 10 ELSE 0
              [] n = "pride" -> IF positive THEN capped((11 * x) \div 10) ELSE 0
              [] n = "loneliness" -> IF negative THEN (7 * x) \div 10 ELSE 0
        old == emotions[n]
    IN  IF trigger > 0
        THEN [intensity |-> IF trigger > old.intensity THEN trigger ELSE old.intensity,
              active_duration |-> IF old.active_duration < 3 THEN 3
                                  ELSE old.active_duration]
        ELSE old

\* this step is one call of the named method of template n
TemplateStep(op, n) ==
    /\ last'.op = op
    /\ last'.target = n
    /\ calls' = calls + 1

\* this step is one process_experience call
ProcessStep ==
    /\ last'.op = "process_experience"
    /\ calls' = calls + 1

\* C12: activate(i, d) never downgrades a template: afterwards intensity is the
\* larger of the old intensity and i, active_duration the larger of the old
\* duration and d, and a second call with the same arguments changes nothing.
C12_ActivateNeverDowngrades ==
    [][\A n \in EmotionNames : TemplateStep("activate", n) =>
          LET i == last'.arg
              d == last'.locals.duration
              old == emotions[n]
              new == emotions'[n]
          IN  /\ new.intensity = IF old.intensity >= i THEN old.intensity ELSE i
              /\ new.active_duration = IF old.active_duration >= d
                                       THEN old.active_duration ELSE d
              /\ (last.op = "activate" /\ last.target = n /\ last.arg = i
                      /\ last.locals.duration = d) => new = old]_vars

\* comfort, raised to 1.2 for three more rounds by an experience, was then
\* activated at 0.8 for one round and kept what it had
C12_Witness ==
    /\ last.op = "activate"
    /\ last.target = "comfort"
    /\ last.arg = Milli(800)
    /\ last.locals.duration = 1
    /\ emotions["comfort"] = [intensity |-> Milli(1200), active_duration |-> 2]

\* C13: decay(rate) on a template with active_duration d >= 1 only decrements
\* the duration while more than one round is left; the call that brings the
\* duration to 0 multiplies intensity by (1 - rate) in the same call; every
\* later call multiplies again and leaves the duration at 0.
C13_DecaySchedule ==
    [][\A n \in EmotionNames : TemplateStep("decay", n) =>
          LET faded == Mul(emotions[n].intensity, Unit - last'.arg)
              d == emotions[n].active_duration
          IN  /\ d > 1 => emotions'[n] = [intensity |-> emotions[n].intensity,
                                          active_duration |-> d - 1]
              /\ d <= 1 => emotions'[n] = [intensity |-> faded, active_duration |-> 0]
              /\ d >= 0]_vars

\* activate(1.5, 2), then the second decay: the duration reached 0 and the
\* intensity was multiplied by 0.7 in that call
C13_Witness ==
    /\ last.op = "decay"
    /\ last.arg = Milli(300)
    /\ calls = 3
    /\ emotions["comfort"] = [intensity |-> Milli(1050), active_duration |-> 0]

\* C14: one process_experience call first activates every triggered template,
\* then collects the modulations of the templates active after activation, then
\* decays all: the values returned are computed from the intensities after
\* activation and before decay, a template triggered by the experience
\* contributes to the mapping of the same call, and every template ends the
\* call one decay later than its activated state.
C14_PhaseOrder ==
    [][ProcessStep =>
          LET fear == C14_Post("fear")
              comfort == C14_Post("comfort")
              loneliness == C14_Post("loneliness")
          IN  /\ "resistance_multiplier" \in DOMAIN mods' <=> fear.intensity > Milli(50)
              /\ fear.intensity > Milli(50) =>
                     mods'["resistance_multiplier"] = Unit + Mul(fear.intensity, Milli(300))
              /\ "emotional_dampening" \in DOMAIN mods' <=> comfort.intensity > Milli(50)
              /\ comfort.intensity > Milli(50) =>
                     mods'["emotional_dampening"] = Mul(comfort.intensity, Milli(300))
              /\ "social_sensitivity" \in DOMAIN mods' <=> loneliness.intensity > Milli(50)
              /\ loneliness.intensity > Milli(50) =>
                     mods'["social_sensitivity"] = Unit + Mul(loneliness.intensity, Milli(500))
              /\ \A n \in EmotionNames :
                     LET post == C14_Post(n)
                     IN  emotions'[n] =
                             IF post.active_duration > 1
                             THEN [post EXCEPT !.active_duration = @ - 1]
                             ELSE [intensity |-> Mul(post.intensity, Milli(700)),
                                   active_duration |-> 0]]_vars

\* fear was triggered at 0.5 and two experiences that trigger nothing followed:
\* the third call returned a resistance_multiplier computed from 0.5 and left
\* fear decayed to 0.35
C14_Witness ==
    /\ last.op = "process_experience"
    /\ calls = 3
    /\ "resistance_multiplier" \in DOMAIN mods
    /\ mods["resistance_multiplier"] = Unit + Milli(150)
    /\ emotions["fear"] = [intensity |-> Milli(350), active_duration |-> 0]

\* the templates that write intensity_multiplier in the process_experience call this
\* step makes, and what each writes
C15_Writes(n) ==
    /\ C14_Post(n).intensity > Milli(50)
    /\ CASE n = "fear" -> last'.exp.valence = "negative"
         [] n = "comfort" -> last'.exp.valence = "positive"
         [] n = "pride" -> last'.exp.valence \in {"positive", "negative"}
         [] OTHER -> TRUE

\* k tenths of the intensity i, rounded to the nearest unit
C15_Tenths(k, i) == (k * i + 5) \div 10

C15_Written(n) ==
    LET i == C14_Post(n).intensity
        negative == last'.exp.valence = "negative"
    IN  CASE n = "fear" -> Unit + C15_Tenths(5, i)
          [] n = "shame" -> IF negative THEN Unit + C15_Tenths(7, i)
                            ELSE Unit - C15_Tenths(4, i)
          [] n = "comfort" -> Unit + C15_Tenths(2, i)
          [] n = "pride" -> IF negative THEN Unit - C15_Tenths(2, i)
                            ELSE Unit + C15_Tenths(6, i)
          [] n = "loneliness" -> Unit + C15_Tenths(3, i)

\* C15: when several active templates return intensity_multiplier in one
\* process_experience call, the mapping returned holds the value of the one
\* that is last in the order fear, shame, comfort, pride, loneliness, nothing
\* summed or multiplied; whenever loneliness is active at collection it is
\* 1 + 0.3 * loneliness.intensity.
C15_LastWriteWins ==
    [][ProcessStep =>
          LET writers == {i \in DOMAIN EmotionOrder : C15_Writes(EmotionOrder[i])}
              final == CHOOSE i \in writers : \A j \in writers : j <= i
          IN  /\ "intensity_multiplier" \in DOMAIN mods' <=> writers # {}
              /\ writers # {} =>
                     mods'["intensity_multiplier"] = C15_Written(EmotionOrder[final])
              /\ C14_Post("loneliness").intensity > Milli(50) =>
                     mods'["intensity_multiplier"]
                         = Unit + C15_Tenths(3, C14_Post("loneliness").intensity)]_vars

\* a positive and then a negative experience: all five templates were active at
\* collection and the multiplier returned is the one of loneliness
C15_Witness ==
    /\ last.op = "process_experience"
    /\ last.exp = Experience("x", "negative", Milli(950), "s")
    /\ calls = 2
    /\ \A n \in EmotionNames : IsActive(emotions[n])
    /\ mods["intensity_multiplier"] = Unit + 199500

\* C16: on a fresh EmotionSystem one process_experience with a negative
\* experience of intensity x > 0.7 activates fear at min((x - 0.7) * 2, 1) and
\* shame at min((x - 0.6) * 1.5, 1), leaves comfort and pride at 0, and returns
\* with the activated templates' active_duration at 2 and their intensity as
\* activated.
C16_FirstNegative ==
    (/\ calls = 1
     /\ last.op = "process_experience"
     /\ last.exp.valence = "negative"
     /\ last.exp.intensity > Milli(700))
        => LET x == last.exp.intensity
               capped(v) == IF v > Unit THEN Unit ELSE v
           IN  /\ emotions["fear"] = [intensity |-> capped(2 * (x - Milli(700))),
                                      active_duration |-> 2]
               /\ emotions["shame"] = [intensity |-> capped((3 * (x - Milli(600))) \div 2),
                                       active_duration |-> 2]
               /\ emotions["comfort"] = [intensity |-> 0, active_duration |-> 0]
               /\ emotions["pride"] = [intensity |-> 0, active_duration |-> 0]

\* the experience of intensity 0.95: fear at 0.5 and shame at 0.525
C16_Witness ==
    /\ calls = 1
    /\ last.op = "process_experience"
    /\ last.exp = Experience("x", "negative", Milli(950), "s")
    /\ emotions["fear"].intensity = Milli(500)
    /\ emotions["shame"].intensity = Milli(525)
    /\ emotions["shame"].active_duration = 2

\* C19: after every activate, decay and process_experience call, whatever the
\* intensity argument or the experience's intensity, every template's intensity
\* is in [0,1] and its active_duration is at least 0.
C19_TemplateInRange ==
    \A n \in EmotionNames :
        /\ emotions[n].intensity >= 0
        /\ emotions[n].intensity <= Unit
        /\ emotions[n].active_duration >= 0

\* C17: running EmotionSystem.process_experience on an experience does not alter
\* the numeric belief update: the call leaves every belief and the mass as they
\* were, and integrate_experience afterwards gives the belief the strength of
\* the plain update_from_experience and the identity the matching mass,
\* whatever the templates hold and whatever mapping was returned.
C17_EmotionsDoNotAlterUpdate ==
    [][/\ ProcessStep => (beliefs' = beliefs /\ mass' = mass)
       /\ \A t \in DOMAIN beliefs :
              (UpdateStep(t) /\ last'.op = "integrate_experience") =>
                  /\ beliefs'[t] = UpdateFromExperience(beliefs[t], last'.exp, last'.arg)
                  /\ mass' = mass - beliefs[t].strength + beliefs'[t].strength
                  /\ emotions' = emotions]_vars

\* the negative experience was first run through the emotion system, which
\* returned an intensity_multiplier of 1.1995, and then integrated: strength
\* fell from 0.6 to 0.562 as without emotions
C17_Witness ==
    /\ last.op = "integrate_experience"
    /\ last.error = "none"
    /\ last.exp = Experience("x", "negative", Milli(950), "s")
    /\ calls = 1
    /\ "intensity_multiplier" \in DOMAIN mods
    /\ mods["intensity_multiplier"] = Unit + 199500
    /\ emotions["fear"] = [intensity |-> Milli(500), active_duration |-> 2]
    /\ last.locals.before = Milli(600)
    /\ beliefs[last.target].strength = Milli(562)
    /\ mass = Milli(562)

\* the last call was a process_experience whose experience triggered template n
C18_Triggered(n) ==
    /\ last.op = "process_experience"
    /\ CASE n \in {"fear", "shame", "loneliness"} ->
                last.exp.valence = "negative" /\ last.exp.intensity > Milli(700)
         [] n \in {"comfort", "pride"} ->
                last.exp.valence = "positive" /\ last.exp.intensity > 0

\* C18: a template that is active (intensity above 0.05) becomes inactive after
\* finitely many further process_experience calls unless an experience
\* triggers it again, and an inactive template that the experience does not
\* trigger stays inactive through the call and contributes nothing to the
\* mapping returned.
C18_Lifecycle ==
    /\ \A n \in EmotionNames :
           (emotions[n].intensity > Milli(50))
               ~> (emotions[n].intensity <= Milli(50) \/ C18_Triggered(n))
    /\ [][\A n \in EmotionNames :
             (/\ last'.op = "process_experience"
              /\ emotions[n].intensity <= Milli(50)
              /\ ~C18_Triggered(n)')
                 => /\ emotions'[n].intensity <= Milli(50)
                    /\ mods' = ProcessExperience([emotions EXCEPT ![n] = NewTemplate],
                                                 last'.exp).returned]_vars

\* fear, once triggered at 0.5, has faded below the threshold while comfort,
\* triggered later, is still active
C18_Witness ==
    /\ emotions["fear"].intensity > 0
    /\ emotions["fear"].intensity <= Milli(50)
    /\ emotions["fear"].active_duration = 0
    /\ emotions["comfort"].intensity > Milli(50)
    /\ "resistance_multiplier" \notin DOMAIN mods
    /\ "emotional_dampening" \in DOMAIN mods

\* this step is one achieve_action call
AchieveStep ==
    /\ last'.op = "achieve_action"
    /\ achieved' = achieved + 1

\* the float product x * y, each factor evaluated once
C20_Times(x, y) == CHOOSE product \in { Mul(a, b) : a \in {x}, b \in {y} } : TRUE

\* aspiration.strength * alignment * recognition_multiplier * pride_sensitivity,
\* clamped to [0,1], of the i-th aspiration in the achieve_action call this
\* step makes (alignment: the max(0, cosine) the call reports for it)
C20_Intensity(i) ==
    LET alignment == last'.result.alignment_scores[aspirations[i].name]
        product == C20_Times(C20_Times(C20_Times(aspirations[i].strength, alignment),
                                       last'.arg.recognition_multiplier),
                             pride_sensitivity)
    IN  CHOOSE clamped \in { IF p > Unit THEN Unit ELSE IF p < 0 THEN 0 ELSE p :
                             p \in {product} } : TRUE

\* the largest C20_Intensity over the aspirations in S, 0 when S is empty
C20_Maximum(S) ==
    IF S = {} THEN 0
    ELSE LET best == CHOOSE i \in S : \A j \in S : C20_Intensity(j) <= C20_Intensity(i)
         IN  C20_Intensity(best)

\* achieve_action returns a PrideEmotion of intensity m, which is then current_pride,
\* when m is above 0.2, and none otherwise
C20_EmitsExactlyAbove(m) ==
    LET returned == last'.result.pride_emotion
    IN  /\ returned # <<>> <=> m > Milli(200)
        /\ returned # <<>> => (returned[1].intensity = m /\ current_pride' = returned)

\* C20 (as stated): achieve_action returns a PrideEmotion and sets current_pride
\* exactly when the maximum of the clamped product over all aspirations is
\* above 0.2, and the intensity emitted is that maximum.
C20_PrideFromAllAspirations ==
    [][AchieveStep => C20_EmitsExactlyAbove(C20_Maximum(DOMAIN aspirations))]_vars

\* C20 (amended): the same with the maximum taken over the aspirations whose
\* alignment with the action is above 0.4 only.
C20_PrideFromAlignedAspirations ==
    [][AchieveStep =>
          C20_EmitsExactlyAbove(C20_Maximum(
              {i \in DOMAIN aspirations :
                   last'.result.alignment_scores[aspirations[i].name] > Milli(400)}))]_vars

\* with sensitivity 1.2, an action along the optional aspiration of strength 0.7
\* and across a mandatory one: pride of intensity 0.84 for the first, the
\* second penalised
C20_Witness ==
    /\ last.op = "achieve_action"
    /\ Len(aspirations) = 2
    /\ pride_sensitivity = Milli(1200)
    /\ last.result.pride_emotion # <<>>
    /\ current_pride = last.result.pride_emotion
    /\ current_pride[1].intensity = Milli(840)
    /\ current_pride[1].aspiration_name = "leader"
    /\ last.result.triggered_effects =
           <<(<<"Shame feedback", "mastery">>), (<<"Pride triggered", "leader">>)>>

\* the penalty path ran for the i-th aspiration in the achieve_action call this
\* step makes
C21_Penalised(i) ==
    \E k \in DOMAIN last'.result.triggered_effects :
        last'.result.triggered_effects[k] = <<"Shame feedback", aspirations[i].name>>

C22_InputStep ==
    /\ last'.op = "process_input"
    /\ calls' = calls + 1

\* the process_input call this step makes reports an interruption
C22_Interrupted ==
    /\ last'.result.effects # <<>>
    /\ last'.result.effects[1][1] = "Comfort interrupted by"

\* the largest disruption signal of the input of the call this step makes
C22_Largest ==
    LET signals == GetDisruptionFactors(last'.arg)
    IN  CHOOSE s \in {signals[k] : k \in DOMAIN signals} :
            \A k \in DOMAIN signals : signals[k] <= s

\* C22: process_input interrupts only a comfort that exists and only when the
\* largest disruption signal s exceeds 0.3; the interruption takes 0.8 * s off
\* the intensity (floored at 0), resets time_stable to 0 and takes 2 off
\* active_duration (floored at 0); a comfort left at intensity 0.1 or less is
\* cleared from current_comfort in the same call, any other stays as interrupted.
C22_ComfortInterruption ==
    [][(C22_InputStep /\ C22_Interrupted) =>
          /\ current_comfort # <<>>
          /\ C22_Largest > Milli(300)
          /\ LET before == current_comfort[1]
                 after == last'.locals.interrupted[1]
             IN  /\ after.intensity =
                        Max(0, before.intensity - C20_Times(C22_Largest, Milli(800)))
                 /\ after.time_stable = 0
                 /\ after.active_duration = Max(0, before.active_duration - 2)
                 /\ current_comfort' =
                        IF after.intensity <= Milli(100) THEN <<>> ELSE <<after>>]_vars

\* a comfort that had built stability is interrupted and survives, with its
\* stability counter back at 0
C22_Witness ==
    /\ last.op = "process_input"
    /\ calls >= 3
    /\ last.locals.interrupted # <<>>
    /\ last.locals.interruption_strength = Milli(500)
    /\ current_comfort = last.locals.interrupted
    /\ current_comfort[1].intensity > Milli(100)
    /\ current_comfort[1].time_stable = 0
    /\ current_comfort[1].active_duration > 0

\* the step is a perform_action call
PerformStep ==
    /\ last'.op = "perform_action"
    /\ calls' = calls + 1

\* what the perform_action call this step makes may hold the action against:
\* the standards, then the beliefs, in the order of their dicts, each with its
\* strength before the call and its dissonance with the action
C23_Targets ==
    [i \in DOMAIN standards |->
        [kind |-> "standard", name |-> standards[i].name,
         strength |-> standards[i].strength,
         dissonance |-> last'.result.dissonance_scores[i][2]]]
    \o [j \in DOMAIN SelectSeq(ShameBeliefOrder, LAMBDA n : n \in DOMAIN beliefs) |->
        LET name == SelectSeq(ShameBeliefOrder, LAMBDA n : n \in DOMAIN beliefs)[j]
        IN  [kind |-> "belief", name |-> name, strength |-> beliefs[name].strength,
             dissonance |-> CalculateSemanticDissonance(last'.arg.semantic_vector,
                                                        BeliefVector)]]

\* strength * dissonance * exposure_level * sensitivity, clamped to [0,1], of a
\* target whose dissonance exceeds 0.3; 0 for a target that is not considered
C23_Intensity(target) ==
    IF target.dissonance > Milli(300)
    THEN Clamp01(C20_Times(C20_Times(C20_Times(target.strength, target.dissonance),
                                     last'.arg.exposure_level),
                           shame_sensitivity))
    ELSE 0

\* the largest of the intensities, 0 when there is none
C23_Largest(intensities) ==
    IF DOMAIN intensities = {} THEN 0
    ELSE LET k == CHOOSE i \in DOMAIN intensities :
                      \A j \in DOMAIN intensities : intensities[j] <= intensities[i]
         IN  intensities[k]

\* the worst-violated target: the first of the largest intensity
C23_Worst(intensities, largest) ==
    CHOOSE i \in DOMAIN intensities :
        /\ intensities[i] = largest
        /\ \A j \in 1..(i - 1) : intensities[j] < largest

\* the strength of a target after the call
C23_After(target) ==
    IF target.kind = "standard"
    THEN standards'[IndexOf(standards, target.name)].strength
    ELSE beliefs'[target.name].strength

\* C23: perform_action emits a ShameEmotion exactly when the largest intensity
\* over the standards and beliefs whose dissonance exceeds 0.3 is above 0.1; it
\* then takes intensity * 0.1 off the strength of the worst-violated standard
\* or belief (floored at 0) and leaves every other standard and belief as it
\* was; the avoidance drive of the emotion is intensity * 0.8.
C23_ShameOnWorstViolation ==
    [][PerformStep =>
          \A targets \in {C23_Targets} :
          \A intensities \in {[i \in DOMAIN targets |->
                                  CHOOSE x \in {C23_Intensity(targets[i])} : TRUE]} :
          \A largest \in {C23_Largest(intensities)} :
          LET emitted == last'.result.shame_emotion
          IN  /\ emitted # <<>> <=> largest > Milli(100)
              /\ emitted # <<>> =>
                     /\ emitted[1].intensity = largest
                     /\ GetAvoidanceDrive(emitted[1]) = C20_Times(largest, Milli(800))
                     /\ \A i \in DOMAIN targets :
                            C23_After(targets[i]) =
                                IF i = C23_Worst(intensities, largest)
                                THEN Max(0, targets[i].strength
                                                - C20_Times(largest, Milli(100)))
                                ELSE targets[i].strength]_vars

\* the step is a process_pride_decay call that calls PrideEmotion.decay
PrideDecayStep ==
    /\ last'.op = "process_pride_decay"
    /\ calls' = calls + 1
    /\ current_pride # <<>>
    /\ current_pride' # <<>>

\* the step is a process_shame_decay call that calls ShameEmotion.decay
ShameDecayStep ==
    /\ last'.op = "process_shame_decay"
    /\ calls' = calls + 1
    /\ current_shame # <<>>
    /\ current_shame' # <<>>

\* before and after the decay call of the step: the emotion that decays, and
\* its intensity less rate of it
C24_Reduced(before, rate) == C20_Times(before.intensity, Unit - rate)

\* the decay call that brings active_duration to 0 reduces the intensity, the
\* ones before it do not
C24_OnExpiry(before, after, rate) ==
    before.active_duration >= 1 =>
        /\ after.active_duration = before.active_duration - 1
        /\ after.intensity = IF before.active_duration = 1
                             THEN C24_Reduced(before, rate)
                             ELSE before.intensity

\* the decay calls that count active_duration down leave the intensity as it
\* is, the one after them reduces it
C24_AfterExpiry(before, after, rate) ==
    /\ before.active_duration >= 1 =>
           /\ after.active_duration = before.active_duration - 1
           /\ after.intensity = before.intensity
    /\ before.active_duration = 0 =>
           /\ after.active_duration = 0
           /\ after.intensity = C24_Reduced(before, rate)

\* C24 as stated: PrideEmotion.decay and ShameEmotion.decay first reduce the
\* intensity (by 0.15 and 0.2 of it) on the call EmotionTemplate.decay first
\* reduces it on, the call that brings active_duration to 0.
C24_SameSchedule ==
    [][/\ PrideDecayStep =>
              C24_OnExpiry(current_pride[1], current_pride'[1], Milli(150))
       /\ ShameDecayStep =>
              C24_OnExpiry(current_shame[1], current_shame'[1], Milli(200))
       /\ \A n \in EmotionNames :
              TemplateStep("decay", n) =>
                  C24_OnExpiry(emotions[n], emotions'[n], last'.arg)]_vars

\* C24 (amended): EmotionTemplate.decay first reduces the intensity on the call
\* that brings active_duration to 0, call d of an emotion started with
\* active_duration d >= 1; PrideEmotion.decay and ShameEmotion.decay leave the
\* intensity as it is on each of those d calls and first reduce it (by 0.15 and
\* 0.2 of it) on the call after, call d + 1.
C24_OneCallLater ==
    [][/\ PrideDecayStep =>
              C24_AfterExpiry(current_pride[1], current_pride'[1], Milli(150))
       /\ ShameDecayStep =>
              C24_AfterExpiry(current_shame[1], current_shame'[1], Milli(200))
       /\ \A n \in EmotionNames :
              TemplateStep("decay", n) =>
                  C24_OnExpiry(emotions[n], emotions'[n], last'.arg)]_vars

\* pride of 0.4 and a template activated at 0.4, each of duration 1, have each
\* been reduced once: the pride by the second decay call made on it, the
\* template by the first
C24_Witness ==
    /\ calls = 4
    /\ last.op = "process_pride_decay"
    /\ current_pride # <<>>
    /\ current_pride[1].duration = 1
    /\ current_pride[1].active_duration = 0
    /\ current_pride[1].intensity = Mul(Milli(400), Milli(850))
    /\ emotions["comfort"] = [intensity |-> Mul(Milli(400), Milli(700)),
                              active_duration |-> 0]

\* C25: each of the first 10 experiences given to a new belief through
\* update_from_experience is weighted 1.0, and each of the next 90 (the 11th
\* to the 100th) 0.5.
C25_FirstTenFullWeight ==
    IsUpdate(last) =>
        LET k == Len(beliefs[last.target].experiences)
            w == last.locals.experience_weight
        IN  /\ (1 <= k /\ k <= 10) => w = Unit
            /\ (11 <= k /\ k <= 100) => w = Milli(500)

\* the step is an integrate_experience call that did not raise
IntegrateStep ==
    /\ last'.op = "integrate_experience"
    /\ last'.error = "none"

\* history s is the beginning of history t
C26_Prefix(s, t) ==
    /\ Len(s) <= Len(t)
    /\ \A i \in DOMAIN s : t[i] = s[i]

\* C26: a successful integrate_experience(e, X) appends exactly e at the end of
\* X's history, and leaves the strength and history of every other belief and
\* the set of belief names as they were; no call of a belief's or the
\* identity's methods removes or reorders an element of a history.
C26_AppendsToTargetOnly ==
    [][/\ IntegrateStep =>
              /\ last'.target \in DOMAIN beliefs
              /\ beliefs'[last'.target].experiences =
                     Append(beliefs[last'.target].experiences, last'.exp)
              /\ DOMAIN beliefs' = DOMAIN beliefs
              /\ \A n \in DOMAIN beliefs \ {last'.target} :
                     /\ beliefs'[n].strength = beliefs[n].strength
                     /\ beliefs'[n].experiences = beliefs[n].experiences
       /\ last'.op # "add_belief" =>
              \A n \in DOMAIN beliefs :
                  /\ n \in DOMAIN beliefs'
                  /\ C26_Prefix(beliefs[n].experiences, beliefs'[n].experiences)]_vars

\* an identity of two beliefs, each with a history, has just integrated a
\* second, different experience into one of them
C26_Witness ==
    /\ last.op = "integrate_experience"
    /\ last.error = "none"
    /\ DOMAIN beliefs = {"leader", "test"}
    /\ Len(beliefs["leader"].experiences) >= 1
    /\ last.target = "test"
    /\ Len(beliefs["test"].experiences) = 2
    /\ beliefs["test"].experiences[2] = last.exp
    /\ beliefs["test"].experiences[1] # last.exp

\* C28: baseline_strength is the strength the belief had right after its
\* construction, whatever the constructor's strength argument, and no later
\* call changes it.
C28_BaselineIsInitialStrength ==
    [][/\ last'.op = "add_belief" =>
              beliefs'[last'.target].baseline_strength = beliefs'[last'.target].strength
       /\ last'.op # "add_belief" =>
              \A n \in DOMAIN beliefs :
                  beliefs'[n].baseline_strength = beliefs[n].baseline_strength]_vars

\* the step is a scheduled apply_elastic_recovery call on belief n
C27_RecoveryStep(n) ==
    /\ last'.op = "apply_elastic_recovery"
    /\ last'.target = n
    /\ n \in DOMAIN beliefs

\* how far belief b is from its baseline
C27_Distance(b) == Abs(b.strength - b.baseline_strength)

\* C27: for a belief whose baseline is within [0,1], each apply_elastic_recovery
\* call with the default factor made while the distance to the baseline exceeds
\* 0.05 strictly reduces that distance and does not move the strength across the
\* baseline; once recovery is all that is called, the distance comes to be at
\* most 0.05, and from then on the calls leave the strength as it is.
C27_RecoveryConverges ==
    /\ [][\A n \in BeliefNames :
             C27_RecoveryStep(n) =>
                 /\ C27_Distance(beliefs[n]) > Milli(50) =>
                        /\ C27_Distance(beliefs'[n]) < C27_Distance(beliefs[n])
                        /\ beliefs[n].strength < beliefs[n].baseline_strength =>
                               beliefs'[n].strength <= beliefs[n].baseline_strength
                        /\ beliefs[n].strength > beliefs[n].baseline_strength =>
                               beliefs'[n].strength >= beliefs[n].baseline_strength
                 /\ C27_Distance(beliefs[n]) <= Milli(50) =>
                        beliefs'[n].strength = beliefs[n].strength]_vars
    /\ \A n \in BeliefNames :
           (last.op = "apply_elastic_recovery" /\ last.target = n)
               ~> (n \in DOMAIN beliefs /\ C27_Distance(beliefs[n]) <= Milli(50))

\* a belief built at 0.5 and driven to 0 has been brought back by recovery
\* calls to within 0.05 of its baseline, where it rests
C27_Witness ==
    /\ last.op = "apply_elastic_recovery"
    /\ "leader" \in DOMAIN beliefs
    /\ beliefs["leader"].baseline_strength = Milli(500)
    /\ beliefs["leader"].strength = Milli(450)
    /\ Len(beliefs["leader"].experiences) = 1

\* the belief of respond's temp_identity after the first k experiences of its
\* final history
RECURSIVE C29_Fed(_, _)
C29_Fed(es, k) ==
    IF k = 0 THEN NewBelief("response_consistency", Milli(500), 1000)
    ELSE CHOOSE b \in {UpdateFromExperience(C29_Fed(es, k - 1), es[k], 2 * Unit)} : TRUE

====
